---- MODULE Spec2Model ----
(***************************************************************************)
(* A model of ttie (src/include/ttie/ttie.h): the Tensor container, the    *)
(* Linear / ReLU / BatchNorm layers and the Model that chains layers.      *)
(*                                                                         *)
(* Numbers.  A C++ float is modelled as a fixed-point number: the integer  *)
(* v stands for the value v / ONE.  Addition and subtraction are exact;    *)
(* multiplication, division and square root round toward zero to the       *)
(* nearest representable value, as every float operation rounds.           *)
(*                                                                         *)
(* Indices.  C++ vectors are 0-based, TLA+ sequences 1-based: element i of *)
(* a vector v is v[i + 1] here; loop variables keep their 0-based values.  *)
(***************************************************************************)
EXTENDS Integers, Sequences, FiniteSets, TLC

VARIABLES
    layers,       \* Model::layers: the sequence of layer objects
    activations,  \* Model::activations: the cached intermediate tensors
    inT,          \* the caller's input tensor (passed to forward and backward)
    outT,         \* the caller's output tensor (passed to forward and backward)
    res,          \* outcome of the last Model call: operation, error, call log
    hist,         \* history of the Model: what has been called so far
    bn,           \* one BatchNorm1d / 2d / 3d layer object
    twin,         \* a second instance of the same class, for comparisons
    bres,         \* outcome of the last BatchNorm call
    bhist,        \* history of the BatchNorm layer
    lyr,          \* one Linear or ReLU layer object
    lx,           \* the tensor its caller passes as input
    ly,           \* the tensor its caller passes as output
    lres,         \* outcome of the last call on the layer
    lhist,        \* history of the layer
    tensor,       \* one Tensor object
    tres          \* outcome of the last call on the Tensor

vars == <<layers, activations, inT, outT, res, hist, bn, twin, bres, bhist,
          lyr, lx, ly, lres, lhist, tensor, tres>>
modelVars == <<layers, activations, inT, outT, res, hist>>
bnVars == <<bn, twin, bres, bhist>>
layerVars == <<lyr, lx, ly, lres, lhist>>
tensorVars == <<tensor, tres>>

----------------------------------------------------------------------------
(* Bounds of the model.                                                    *)

\* Fixed-point resolution: the integer ONE stands for 1.0f.
ONE == 16
\* Largest number of layers added to a Model.
MaxLayers == 3
\* Largest number of Model::backward calls that run the layers.
MaxBackward == 1
\* Batch size of the tensors passed to the Model.
Batch == 1
\* Largest number of successful forward / backward calls on a BatchNorm layer.
MaxBNForward == 2
MaxBNBackward == 2
\* backward calls on the Linear / ReLU layer under test
MaxLayerBackward == 2
\* Largest number of layers of a Model whose parameters() is called.
MaxParamLayers == 3
\* Largest number of layers of a Model that holds BatchNorm layers.
MaxNetLayers == 2

\* size_t arithmetic wraps modulo 2^SizeBits.  The code's size_t has 64 bits;
\* TLC's integers have 32, so the width is scaled down.  Only the wrap
\* of 0 - 1 to the largest value matters, which no vector length ever equals.
SizeBits == 30
SizeMod == 2 ^ SizeBits

----------------------------------------------------------------------------
(* Float arithmetic (fixed point, rounding toward zero).                    *)

\* integer division rounding toward zero
TDiv(a, b) ==
    IF b > 0
    THEN (IF a >= 0 THEN a \div b ELSE -((-a) \div b))
    ELSE (IF a >= 0 THEN -(a \div (-b)) ELSE (-a) \div (-b))

FromInt(n) == n * ONE
FAdd(a, b) == a + b
FSub(a, b) == a - b
FMul(a, b) == TDiv(a * b, ONE)
FDiv(a, b) == TDiv(a * ONE, b)
\* std::sqrt of a value >= 0: the largest r with r*r <= a (in value terms)
FSqrt(a) == CHOOSE r \in 0..(a + ONE) : r * r <= a * ONE /\ (r + 1) * (r + 1) > a * ONE
FMax(a, b) == IF a < b THEN b ELSE a

----------------------------------------------------------------------------
(* Tensor.                                                                  *)

\* A default-constructed Tensor: empty shape, data and grad.
EmptyTensor == [shape |-> <<>>, data |-> <<>>, grad |-> <<>>]

validate_shape(t) ==
    /\ Len(t.shape) # 0
    /\ \A i \in 1..Len(t.shape) : t.shape[i] # 0

RECURSIVE Product(_)
Product(s) == IF s = <<>> THEN 1 ELSE s[1] * Product(Tail(s))

\* a * b on size_t: the product modulo 2^SizeBits, computed without leaving
\* the range of TLC's integers
RECURSIVE MulSize(_, _)
MulSize(a, b) ==
    IF b = 0 THEN 0
    ELSE (((2 * MulSize(a, b \div 2)) % SizeMod) + ((b % 2) * a)) % SizeMod

\* total = 1; for (dim : shape) total *= dim;
RECURSIVE SizeLoop(_, _)
SizeLoop(total, s) == IF s = <<>> THEN total ELSE SizeLoop(MulSize(total, s[1]), Tail(s))

\* Tensor::size() of a tensor whose shape is valid (it throws otherwise).
size(t) == SizeLoop(1, t.shape)

\* the vector <<F(1), ..., F(n)>>, every element computed once
MkSeq(n, F(_)) ==
    LET build[k \in 0..n] == IF k = 0 THEN <<>> ELSE Append(build[k - 1], F(k))
    IN  build[n]

\* a resize that reallocates and clears the whole buffer
VecResizeCleared(v, n) == MkSeq(n, LAMBDA i : 0)

\* a resize whose new elements are not cleared
VecResizeDirty(v, n) == MkSeq(n, LAMBDA i : IF i <= Len(v) THEN v[i] ELSE ONE)

\* std::vector<float>::resize(n): keeps the first min(old, n) elements and
\* value-initialises (0.0f) the new ones.
VecResize(v, n) == MkSeq(n, LAMBDA i : IF i <= Len(v) THEN v[i] ELSE 0)

resize(t) == [t EXCEPT !.data = VecResize(t.data, size(t))]
resize_grad(t) == [t EXCEPT !.grad = VecResize(t.grad, size(t))]
\* a zero_grad that empties the buffer
zero_grad_cleared(t) == [t EXCEPT !.grad = <<>>]

zero_grad(t) == [t EXCEPT !.grad = MkSeq(Len(t.grad), LAMBDA i : 0)]

\* acc += f[1]; ...; acc += f[n], starting from acc = init: the value an
\* accumulation loop leaves in acc
RECURSIVE AccSeq(_, _, _)
AccSeq(init, f, n) == IF n = 0 THEN init ELSE FAdd(AccSeq(init, f, n - 1), f[n])

SumSeq(f, n) == AccSeq(0, f, n)

----------------------------------------------------------------------------
(* Linear and ReLU.                                                         *)

\* A layer object.  kind is "Linear" or "ReLU"; a ReLU has no parameters
\* (weight and bias stay empty).
ReLULayer == [kind |-> "ReLU", weight |-> EmptyTensor, bias |-> EmptyTensor]

\* Sigmoid and Tanh: no fields.  Only parameters() of these two is modelled.
SigmoidLayer == [kind |-> "Sigmoid", weight |-> EmptyTensor, bias |-> EmptyTensor]
TanhLayer == [kind |-> "Tanh", weight |-> EmptyTensor, bias |-> EmptyTensor]

\* Linear::Linear(in_features, out_features); the random initial values are
\* the arguments w and b.
NewLinear(in_features, out_features, w, b) ==
    [kind |-> "Linear",
     weight |-> resize([shape |-> <<in_features, out_features>>, data |-> w, grad |-> <<>>]),
     bias |-> resize([shape |-> <<out_features>>, data |-> b, grad |-> <<>>])]

\* weight stored as [out_features, in_features]
WeightAtTransposed(L, k, j) == L.weight.data[j * L.weight.shape[1] + k + 1]

\* weight.data[k * out_features + j]: row k (an input feature), column j
WeightAt(L, k, j) == L.weight.data[k * L.weight.shape[2] + j + 1]

LinearForward(L, input, output) ==
    LET in_features == L.weight.shape[1]
        out_features == L.weight.shape[2]
        o1 == resize([output EXCEPT !.shape = <<input.shape[1], out_features>>])
        cell(i, j) ==
            AccSeq(L.bias.data[j + 1],
                   [k \in 1..in_features |->
                       FMul(input.data[i * in_features + (k - 1) + 1], WeightAt(L, k - 1, j))],
                   in_features)
    IN  [o1 EXCEPT !.data =
            MkSeq(Len(o1.data),
                  LAMBDA idx : cell((idx - 1) \div out_features, (idx - 1) % out_features))]

\* a backward that adds to the input gradient it finds
InputGradKept(g) == g

\* input.grad[i * in_features + j] = 0 before the sum over k
InputGradStart(g) == 0

\* Linear::backward(output, input): returns the layer (its parameter
\* gradients accumulated) and the input tensor (its grad overwritten).
LinearBackward(L, output, input) ==
    LET in_features == L.weight.shape[1]
        out_features == L.weight.shape[2]
        batch_size == output.shape[1]
        i1 == resize_grad(input)
        w1 == resize_grad(L.weight)
        b1 == resize_grad(L.bias)
        og(i, k) == output.grad[i * out_features + k + 1]
        inGrad(i, j) ==
            AccSeq(InputGradStart(i1.grad[i * in_features + j + 1]), [k \in 1..out_features |->
                       FMul(og(i, k - 1), WeightAt(L, j, k - 1))],
                   out_features)
        wAcc(j, k) ==
            AccSeq(w1.grad[j * out_features + k + 1],
                   [i \in 1..batch_size |->
                       FMul(og(i - 1, k), input.data[(i - 1) * in_features + j + 1])],
                   batch_size)
        bAcc(k) == AccSeq(b1.grad[k + 1], [i \in 1..batch_size |-> og(i - 1, k)], batch_size)
    IN  [layer |->
            [L EXCEPT
                !.weight = [w1 EXCEPT !.grad =
                    MkSeq(Len(w1.grad),
                          LAMBDA x : wAcc((x - 1) \div out_features, (x - 1) % out_features))],
                !.bias = [b1 EXCEPT !.grad = MkSeq(Len(b1.grad), LAMBDA x : bAcc(x - 1))]],
         tensor |->
            [i1 EXCEPT !.grad =
                MkSeq(Len(i1.grad),
                      LAMBDA x : IF x <= batch_size * in_features
                                 THEN inGrad((x - 1) \div in_features, (x - 1) % in_features)
                                 ELSE i1.grad[x])]]

ReLUForward(input, output) ==
    LET o1 == resize([output EXCEPT !.shape = input.shape])
    IN  [o1 EXCEPT !.data =
            MkSeq(Len(o1.data),
                  LAMBDA i : IF i <= Len(input.data) THEN FMax(0, input.data[i])
                             ELSE o1.data[i])]

\* a derivative that lets the gradient through at 0
ReLUBackwardInclusive(output, input) ==
    LET i1 == resize_grad(input)
    IN  [i1 EXCEPT !.grad =
            MkSeq(Len(i1.grad),
                  LAMBDA i : IF i <= Len(output.data)
                             THEN (IF output.data[i] >= 0 THEN output.grad[i] ELSE 0)
                             ELSE i1.grad[i])]

ReLUBackward(output, input) ==
    LET i1 == resize_grad(input)
    IN  [i1 EXCEPT !.grad =
            MkSeq(Len(i1.grad),
                  LAMBDA i : IF i <= Len(output.data)
                             THEN (IF output.data[i] > 0 THEN output.grad[i] ELSE 0)
                             ELSE i1.grad[i])]

----------------------------------------------------------------------------
(* BatchNorm1d, BatchNorm2d, BatchNorm3d.                                   *)
(*                                                                         *)
(* A call returns the layer object after the call, the tensor it wrote and  *)
(* the exception it threw, and (for the properties) the mean and variance  *)
(* its loop computed per channel: "ShapeMismatch" is the std::invalid_argument a *)
(* layer throws, "InvalidShape" the std::invalid_argument of Tensor::size() *)
(* and "IllegalState" a std::runtime_error; "none" is a normal return.      *)

Zeros(n) == MkSeq(n, LAMBDA i : 0)

\* The constructors (identical in the three classes).  g is the random
\* initial value of gamma.
NewBatchNorm(kind, num_features, eps, momentum, affine, track_running_stats, g) ==
    [kind |-> kind, num_features |-> num_features, eps |-> eps, momentum |-> momentum,
     affine |-> affine, track_running_stats |-> track_running_stats,
     gamma |-> IF affine
               THEN [shape |-> <<num_features>>, data |-> MkSeq(num_features, LAMBDA i : g),
                     grad |-> Zeros(num_features)]
               ELSE EmptyTensor,
     beta |-> IF affine
              THEN [shape |-> <<num_features>>, data |-> Zeros(num_features),
                    grad |-> Zeros(num_features)]
              ELSE EmptyTensor,
     running_mean |-> IF track_running_stats
                      THEN [shape |-> <<num_features>>, data |-> Zeros(num_features), grad |-> <<>>]
                      ELSE EmptyTensor,
     running_var |-> IF track_running_stats
                     THEN [shape |-> <<num_features>>, data |-> Zeros(num_features), grad |-> <<>>]
                     ELSE EmptyTensor,
     input_data |-> <<>>,
     first_update |-> TRUE]

\* a failing call that uses up the direct assignment of the running statistics
ThrowConsumesFirst(L, t, e) ==
    [layer |-> [L EXCEPT !.first_update = FALSE], tensor |-> t, err |-> e, stats |-> <<>>]

Throw(L, t, e) == [layer |-> L, tensor |-> t, err |-> e, stats |-> <<>>]

\* The flat indices (0-based) of one channel, in the order the loops visit
\* them.
\* BatchNorm1d: for b: idx = b * num_features + f
ChannelIdx1d(batch_size, num_features, f) ==
    MkSeq(batch_size, LAMBDA p : (p - 1) * num_features + f)

\* a channel stride of W instead of H*W
ChannelIdx2dRowStride(N, C, H, W, c) ==
    MkSeq(N * H * W,
          LAMBDA p : LET n == (p - 1) \div (H * W)
                         h == ((p - 1) % (H * W)) \div W
                         w == (p - 1) % W
                     IN  n * C * H * W + c * W + h * W + w)

\* BatchNorm2d: for n, h, w: idx = n*C*H*W + c*H*W + h*W + w
ChannelIdx2d(N, C, H, W, c) ==
    MkSeq(N * H * W,
          LAMBDA p : LET n == (p - 1) \div (H * W)
                         h == ((p - 1) % (H * W)) \div W
                         w == (p - 1) % W
                     IN  n * C * H * W + c * H * W + h * W + w)

\* BatchNorm3d: for n, d, h, w: idx = n*C*D*H*W + c*D*H*W + d*H*W + h*W + w
ChannelIdx3d(N, C, D, H, W, c) ==
    MkSeq(N * D * H * W,
          LAMBDA p : LET n == (p - 1) \div (D * H * W)
                         d == ((p - 1) % (D * H * W)) \div (H * W)
                         h == ((p - 1) % (H * W)) \div W
                         w == (p - 1) % W
                     IN  n * C * D * H * W + c * D * H * W + d * H * W + h * W + w)

\* mean, var and inv_std of one channel of the buffer x
ChannelStats(x, idx, eps) ==
    LET count == Len(idx)
        mean == FDiv(SumSeq([p \in 1..count |-> x[idx[p] + 1]], count), FromInt(count))
        var == FDiv(SumSeq([p \in 1..count |->
                               FMul(FSub(x[idx[p] + 1], mean), FSub(x[idx[p] + 1], mean))],
                           count),
                    FromInt(count))
    IN  [mean |-> mean, var |-> var, inv_std |-> FDiv(ONE, FSqrt(FAdd(var, eps)))]

\* a layer that blends the very first batch into the initial running value
RunningUpdateAlwaysBlend(first_update, momentum, running, stat) ==
    FAdd(FMul(FSub(ONE, momentum), running), FMul(momentum, stat))

\* the update of running_mean[c] / running_var[c] by one forward call
RunningUpdate(first_update, momentum, running, stat) ==
    IF first_update
    THEN stat
    ELSE FAdd(FMul(FSub(ONE, momentum), running), FMul(momentum, stat))

\* the channel (the last one, if several) whose loop writes flat index j
Writer(idxs, j) ==
    LET cs == {c \in 1..Len(idxs) : \E p \in 1..Len(idxs[c]) : idxs[c][p] = j}
    IN  IF cs = {} THEN 0 ELSE CHOOSE c \in cs : \A d \in cs : d <= c

\* an affine layer that forgets the shift
AffineOutUnshifted(L, k, x_hat) ==
    IF L.affine THEN FMul(L.gamma.data[k], x_hat) ELSE x_hat

\* an output that is shifted once the layer has seen a batch
AffineOutAfterFirst(L, k, x_hat) ==
    IF L.first_update
    THEN (IF L.affine THEN FAdd(FMul(L.gamma.data[k], x_hat), L.beta.data[k]) ELSE x_hat)
    ELSE (IF L.affine THEN FAdd(FMul(L.gamma.data[k], x_hat), L.beta.data[k]) ELSE x_hat) + 1

\* output.data[idx] = affine ? gamma.data[c] * x_hat + beta.data[c] : x_hat
AffineOut(L, k, x_hat) ==
    IF L.affine THEN FAdd(FMul(L.gamma.data[k], x_hat), L.beta.data[k]) ELSE x_hat

\* The per-channel loop of forward (after validation, with the output sized
\* and the input cached): statistics, running statistics, normalisation.
\* idxs[c + 1] holds the flat indices of channel c.
BatchNormForwardLoop(L, input, output, C, idxs) ==
    LET stats == MkSeq(C, LAMBDA k : ChannelStats(input.data, idxs[k], L.eps))
        x_hat(k, j) == FMul(FSub(input.data[j + 1], stats[k].mean), stats[k].inv_std)
        y(k, j) == AffineOut(L, k, x_hat(k, j))
        L1 == [L EXCEPT !.input_data = input.data]
        L2 == IF L.track_running_stats
              THEN [L1 EXCEPT
                      !.running_mean.data =
                          MkSeq(Len(@), LAMBDA k : IF k <= C
                              THEN RunningUpdate(L.first_update, L.momentum,
                                                 L.running_mean.data[k], stats[k].mean)
                              ELSE L.running_mean.data[k]),
                      !.running_var.data =
                          MkSeq(Len(@), LAMBDA k : IF k <= C
                              THEN RunningUpdate(L.first_update, L.momentum,
                                                 L.running_var.data[k], stats[k].var)
                              ELSE L.running_var.data[k])]
              ELSE L1
    IN  [layer |-> [L2 EXCEPT !.first_update = FALSE],
         tensor |-> [output EXCEPT !.data =
                        MkSeq(Len(output.data),
                              LAMBDA j : LET k == Writer(idxs, j - 1)
                                         IN  IF k = 0 THEN output.data[j] ELSE y(k, j - 1))],
         err |-> "none",
         stats |-> stats]

\* the validation of BatchNorm1d::forward with the rank test loosened
BatchNorm1dShapeBadLoose(L, shape) ==
    Len(shape) < 2 \/ shape[2] # L.num_features

\* BatchNorm1d::forward line 435
BatchNorm1dShapeBad(L, shape) ==
    Len(shape) # 2 \/ shape[2] # L.num_features

BatchNorm1dForward(L, input, output) ==
    IF BatchNorm1dShapeBad(L, input.shape) THEN Throw(L, output, "ShapeMismatch")
    ELSE LET batch_size == input.shape[1]
             o1 == [output EXCEPT !.shape = <<batch_size, L.num_features>>]
         IN  IF ~validate_shape(o1) THEN Throw(L, o1, "InvalidShape")
             ELSE BatchNormForwardLoop(L, input, resize(o1), L.num_features,
                      MkSeq(L.num_features, LAMBDA k : ChannelIdx1d(batch_size, L.num_features, k - 1)))

BatchNorm2dForward(L, input, output) ==
    IF Len(input.shape) # 4 THEN Throw(L, output, "ShapeMismatch")
    ELSE IF input.shape[2] # L.num_features THEN Throw(L, output, "ShapeMismatch")
    ELSE IF ~validate_shape(input) THEN Throw(L, output, "InvalidShape")
    ELSE IF Len(input.data) # size(input) THEN Throw(L, output, "IllegalState")
    ELSE LET N == input.shape[1]
             C == input.shape[2]
             H == input.shape[3]
             W == input.shape[4]
         IN  BatchNormForwardLoop(L, input, resize([output EXCEPT !.shape = <<N, C, H, W>>]), C,
                 MkSeq(C, LAMBDA k : ChannelIdx2d(N, C, H, W, k - 1)))

BatchNorm3dForward(L, input, output) ==
    IF Len(input.shape) # 5 THEN Throw(L, output, "ShapeMismatch")
    ELSE IF input.shape[2] # L.num_features THEN Throw(L, output, "ShapeMismatch")
    ELSE IF ~validate_shape(input) THEN Throw(L, output, "InvalidShape")
    ELSE IF Len(input.data) # size(input) THEN Throw(L, output, "IllegalState")
    ELSE LET N == input.shape[1]
             C == input.shape[2]
             D == input.shape[3]
             H == input.shape[4]
             W == input.shape[5]
         IN  BatchNormForwardLoop(L, input,
                 resize([output EXCEPT !.shape = <<N, C, D, H, W>>]), C,
                 MkSeq(C, LAMBDA k : ChannelIdx3d(N, C, D, H, W, k - 1)))

\* The per-channel loop of backward (after validation, with grad_input
\* sized): statistics of the cached input, the input gradient, and the
\* accumulation into gamma.grad / beta.grad.
BatchNormBackwardLoop(L, grad_output, grad_input, C, idxs) ==
    LET stats == MkSeq(C, LAMBDA k : ChannelStats(L.input_data, idxs[k], L.eps))
        count(k) == Len(idxs[k])
        x_hat(k, j) == FMul(FSub(L.input_data[j + 1], stats[k].mean), stats[k].inv_std)
        dy(j) == grad_output.grad[j + 1]
        dys(k) == [p \in 1..count(k) |-> dy(idxs[k][p])]
        dyx(k) == [p \in 1..count(k) |-> FMul(dy(idxs[k][p]), x_hat(k, idxs[k][p]))]
        sums == MkSeq(C, LAMBDA k : [sum_dy |-> SumSeq(dys(k), count(k)),
                                     sum_dy_x_hat |-> SumSeq(dyx(k), count(k))])
        gamma_val(k) == IF L.affine THEN L.gamma.data[k] ELSE ONE
        dx(k, j) ==
            LET inv_std == stats[k].inv_std
                factor == FromInt(count(k))
                term1 == FMul(FMul(dy(j), inv_std), gamma_val(k))
                term2 == FMul(FDiv(FMul(inv_std, sums[k].sum_dy), factor), gamma_val(k))
                term3 == FMul(FDiv(FMul(FMul(inv_std, x_hat(k, j)), sums[k].sum_dy_x_hat),
                                   factor),
                              gamma_val(k))
            IN  FSub(FSub(term1, term2), term3)
    IN  [layer |->
            IF L.affine
            THEN [L EXCEPT
                    !.beta.grad = MkSeq(Len(@), LAMBDA k : IF k <= C
                        THEN AccSeq(L.beta.grad[k], dys(k), count(k))
                        ELSE L.beta.grad[k]),
                    !.gamma.grad = MkSeq(Len(@), LAMBDA k : IF k <= C
                        THEN AccSeq(L.gamma.grad[k], dyx(k), count(k))
                        ELSE L.gamma.grad[k])]
            ELSE L,
         tensor |-> [grad_input EXCEPT !.grad =
                        MkSeq(Len(grad_input.grad),
                              LAMBDA j : LET k == Writer(idxs, j - 1)
                                         IN  IF k = 0 THEN grad_input.grad[j] ELSE dx(k, j - 1))],
         err |-> "none",
         stats |-> stats]

BatchNorm1dBackward(L, grad_output, grad_input) ==
    IF Len(grad_output.shape) # 2 \/ grad_output.shape[2] # L.num_features
    THEN Throw(L, grad_input, "ShapeMismatch")
    ELSE IF grad_output.grad = <<>> THEN Throw(L, grad_input, "IllegalState")
    ELSE IF L.input_data = <<>> THEN Throw(L, grad_input, "IllegalState")
    ELSE IF Len(L.input_data) # grad_output.shape[1] * L.num_features
    THEN Throw(L, grad_input, "IllegalState")
    ELSE LET batch_size == grad_output.shape[1]
             g1 == [grad_input EXCEPT !.shape = <<batch_size, L.num_features>>]
         IN  BatchNormBackwardLoop(L, grad_output, resize_grad(resize(g1)), L.num_features,
                 MkSeq(L.num_features, LAMBDA k : ChannelIdx1d(batch_size, L.num_features, k - 1)))

\* a backward that does not reset the parameter gradients
KeepParamGrads(L) == L

\* BatchNorm2d::backward lines 710-713 (BatchNorm3d: 952-955)
ZeroParamGrads(L) ==
    IF L.affine
    THEN [L EXCEPT !.gamma = zero_grad(L.gamma), !.beta = zero_grad(L.beta)]
    ELSE L

BatchNorm2dBackward(L, grad_output, grad_input) ==
    IF L.input_data = <<>> THEN Throw(L, grad_input, "IllegalState")
    ELSE IF Len(grad_output.shape) # 4 \/ grad_output.shape[2] # L.num_features
    THEN Throw(L, grad_input, "ShapeMismatch")
    ELSE IF grad_output.grad = <<>> THEN Throw(L, grad_input, "IllegalState")
    ELSE IF Len(L.input_data) #
            grad_output.shape[1] * L.num_features * grad_output.shape[3] * grad_output.shape[4]
    THEN Throw(L, grad_input, "IllegalState")
    ELSE IF L.affine /\ (Len(L.gamma.grad) # L.num_features \/ Len(L.beta.grad) # L.num_features)
    THEN Throw(L, grad_input, "IllegalState")
    ELSE LET N == grad_output.shape[1]
             C == grad_output.shape[2]
             H == grad_output.shape[3]
             W == grad_output.shape[4]
             g1 == [grad_input EXCEPT !.shape = <<N, C, H, W>>]
         IN  BatchNormBackwardLoop(ZeroParamGrads(L), grad_output, resize_grad(resize(g1)), C,
                 MkSeq(C, LAMBDA k : ChannelIdx2d(N, C, H, W, k - 1)))

BatchNorm3dBackward(L, grad_output, grad_input) ==
    IF L.input_data = <<>> THEN Throw(L, grad_input, "IllegalState")
    ELSE IF Len(grad_output.shape) # 5 \/ grad_output.shape[2] # L.num_features
    THEN Throw(L, grad_input, "ShapeMismatch")
    ELSE IF grad_output.grad = <<>> THEN Throw(L, grad_input, "IllegalState")
    ELSE IF Len(L.input_data) #
            grad_output.shape[1] * L.num_features * grad_output.shape[3]
                * grad_output.shape[4] * grad_output.shape[5]
    THEN Throw(L, grad_input, "IllegalState")
    ELSE IF L.affine /\ (Len(L.gamma.grad) # L.num_features \/ Len(L.beta.grad) # L.num_features)
    THEN Throw(L, grad_input, "IllegalState")
    ELSE LET N == grad_output.shape[1]
             C == grad_output.shape[2]
             D == grad_output.shape[3]
             H == grad_output.shape[4]
             W == grad_output.shape[5]
             g1 == [grad_input EXCEPT !.shape = <<N, C, D, H, W>>]
         IN  BatchNormBackwardLoop(ZeroParamGrads(L), grad_output, resize_grad(resize(g1)), C,
                 MkSeq(C, LAMBDA k : ChannelIdx3d(N, C, D, H, W, k - 1)))

\* Layer::forward / Layer::backward of a BatchNorm layer, by its class
BatchNormForward(L, input, output) ==
    IF L.kind = "1d" THEN BatchNorm1dForward(L, input, output)
    ELSE IF L.kind = "2d" THEN BatchNorm2dForward(L, input, output)
    ELSE BatchNorm3dForward(L, input, output)

BatchNormBackward(L, grad_output, grad_input) ==
    IF L.kind = "1d" THEN BatchNorm1dBackward(L, grad_output, grad_input)
    ELSE IF L.kind = "2d" THEN BatchNorm2dBackward(L, grad_output, grad_input)
    ELSE BatchNorm3dBackward(L, grad_output, grad_input)

\* Layer::forward, dispatched on the layer's type.  Returns the layer object,
\* the tensor written and the exception thrown ("none" when it returns).
LayerForward(L, input, output) ==
    IF L.kind = "Linear"
    THEN [layer |-> L, tensor |-> LinearForward(L, input, output), err |-> "none"]
    ELSE IF L.kind \in {"1d", "2d", "3d"}
    THEN CHOOSE call \in {[layer |-> r.layer, tensor |-> r.tensor, err |-> r.err] :
                           r \in {BatchNormForward(L, input, output)}} : TRUE
    ELSE [layer |-> L, tensor |-> ReLUForward(input, output), err |-> "none"]

\* Layer::backward, dispatched on the layer's type.  Linear and ReLU start
\* with input.resize_grad(), which throws when the shape of input is not
\* valid (a default-constructed tensor).
LayerBackward(L, output, input) ==
    IF L.kind \in {"1d", "2d", "3d"}
    THEN CHOOSE call \in {[layer |-> r.layer, tensor |-> r.tensor, err |-> r.err] :
                           r \in {BatchNormBackward(L, output, input)}} : TRUE
    ELSE IF ~validate_shape(input)
    THEN [layer |-> L, tensor |-> input, err |-> "InvalidShape"]
    ELSE IF L.kind = "Linear"
    THEN LET r == LinearBackward(L, output, input)
         IN  [layer |-> r.layer, tensor |-> r.tensor, err |-> "none"]
    ELSE [layer |-> L, tensor |-> ReLUBackward(output, input), err |-> "none"]

----------------------------------------------------------------------------
(* Model.                                                                   *)

\* a subtraction that stops at 0
SizeSub1Saturating(n) == IF n = 0 THEN 0 ELSE n - 1

\* n - 1 on size_t: layers.size() - 1 wraps when the model has no layer.
SizeSub1(n) == (n + SizeMod - 1) % SizeMod

\* The references the Model passes to its layers: the caller's input, the
\* caller's output, or &activations[i].
PtrInput == <<"input", 0>>
PtrOutput == <<"output", 0>>
PtrAct(i) == <<"activation", i>>

\* The tensors a Model call works on: the activation cache and the two
\* tensors of the caller.
Deref(st, p) ==
    IF p = PtrInput THEN st.input
    ELSE IF p = PtrOutput THEN st.output
    ELSE st.acts[p[2] + 1]

Store(st, p, t) ==
    IF p = PtrInput THEN [st EXCEPT !.input = t]
    ELSE IF p = PtrOutput THEN [st EXCEPT !.output = t]
    ELSE [st EXCEPT !.acts[p[2] + 1] = t]

\* std::vector<Tensor>::resize(n): keeps the first min(old, n) tensors and
\* default-constructs the new ones.
ActsResize(acts, n) == MkSeq(n, LAMBDA i : IF i <= Len(acts) THEN acts[i] ELSE EmptyTensor)

\* a forward that keeps one activation per layer
ForwardActivationCountPerLayer(ls) == Len(ls)

\* Model::forward line 301: the number of activation slots.
ForwardActivationCount(ls) == SizeSub1(Len(ls))

\* a forward in which every inner layer writes activation 0
ForwardNextFirstSlot(ls, i) == IF i = SizeSub1(Len(ls)) THEN PtrOutput ELSE PtrAct(0)

\* Model::forward line 306: where layer i writes.
ForwardNext(ls, i) == IF i = SizeSub1(Len(ls)) THEN PtrOutput ELSE PtrAct(i)

\* Model::forward lines 303-309, from loop index i on.  st.cur is `current`.
\* The state the loop has reached (st) and what the layer's forward returned
\* (r) are values: each is computed once and then read.
RECURSIVE ForwardLoop(_, _)
ForwardLoop(reached, i) ==
    LET Returned(st, next, r) ==
            LET st1 == [Store(st, next, r.tensor) EXCEPT
                           !.ls[i + 1] = r.layer,
                           !.log = Append(st.log, [layer |-> i, src |-> st.cur, dst |-> next])]
            IN  IF r.err # "none"
                THEN [st1 EXCEPT !.err = r.err]
                ELSE ForwardLoop([st1 EXCEPT !.cur = next], i + 1)
        Iteration(st) ==
            IF i >= Len(st.ls) THEN st
            ELSE LET next == ForwardNext(st.ls, i)
                 IN  CHOOSE after \in
                         {Returned(st, next, r) :
                             r \in {LayerForward(st.ls[i + 1], Deref(st, st.cur),
                                                 Deref(st, next))}} : TRUE
    IN  CHOOSE after \in {Iteration(st) : st \in {reached}} : TRUE

\* std::vector::max_size(): no vector holds more than half the address space.
VectorMaxSize == SizeMod \div 2

\* a forward that puts the cache back when a layer throws
ModelForwardRollback(ls, acts, input, output) ==
    LET st0 == [ls |-> ls, acts |-> acts, input |-> input, output |-> output,
                cur |-> PtrInput, log |-> <<>>, err |-> "none"]
        r == ForwardLoop([st0 EXCEPT !.acts = ActsResize(acts, ForwardActivationCount(ls))], 0)
    IN  IF ForwardActivationCount(ls) > VectorMaxSize
        THEN [st0 EXCEPT !.err = "length_error"]
        ELSE IF r.err # "none" THEN [r EXCEPT !.acts = acts] ELSE r

\* Model::forward.  resize() to more than max_size() elements (the wrapped
\* count of a model without layers) throws std::length_error and leaves the
\* vector as it was.
ModelForward(ls, acts, input, output) ==
    LET st0 == [ls |-> ls, acts |-> acts, input |-> input, output |-> output,
                cur |-> PtrInput, log |-> <<>>, err |-> "none"]
    IN  IF ForwardActivationCount(ls) > VectorMaxSize
        THEN [st0 EXCEPT !.err = "length_error"]
        ELSE ForwardLoop([st0 EXCEPT !.acts = ActsResize(acts, ForwardActivationCount(ls))], 0)

\* a check that compares the cache with the layer count itself
BackwardRejectsOffByOne(ls, acts) == Len(acts) # Len(ls)

\* Model::backward line 314: the forward-must-precede-backward check.
BackwardRejects(ls, acts) == Len(acts) # SizeSub1(Len(ls))

\* a backward in which layer 1 already writes the caller's tensor
BackwardPrevOffByOne(i) == IF i > 1 THEN PtrAct(i - 1) ELSE PtrInput

\* Model::backward line 323: where layer i writes its gradient.
BackwardPrev(i) == IF i > 0 THEN PtrAct(i - 1) ELSE PtrInput

\* Model::backward lines 320-326, from loop index i down.
RECURSIVE BackwardLoop(_, _)
BackwardLoop(reached, i) ==
    LET Returned(st, prev, r) ==
            LET st1 == [Store(st, prev, r.tensor) EXCEPT
                           !.ls[i + 1] = r.layer,
                           !.log = Append(st.log, [layer |-> i, src |-> st.cur, dst |-> prev])]
            IN  IF r.err # "none"
                THEN [st1 EXCEPT !.err = r.err]
                ELSE BackwardLoop([st1 EXCEPT !.cur = prev], i - 1)
        Iteration(st) ==
            IF i < 0 THEN st
            ELSE LET prev == BackwardPrev(i)
                 IN  CHOOSE after \in
                         {Returned(st, prev, r) :
                             r \in {LayerBackward(st.ls[i + 1], Deref(st, st.cur),
                                                  Deref(st, prev))}} : TRUE
    IN  CHOOSE after \in {Iteration(st) : st \in {reached}} : TRUE

\* Model::backward(output, input).
ModelBackward(ls, acts, output, input) ==
    LET st0 == [ls |-> ls, acts |-> acts, input |-> input, output |-> output,
                cur |-> PtrOutput, log |-> <<>>, err |-> "none"]
    IN  IF BackwardRejects(ls, acts)
        THEN [st0 EXCEPT !.err = "IllegalState"]
        ELSE BackwardLoop(st0, Len(ls) - 1)

\* a layer that also hands out its running statistics
LayerParametersWithStats(L) ==
    IF L.kind = "Linear" THEN <<"weight", "bias">>
    ELSE IF L.kind \in {"1d", "2d", "3d"}
    THEN (IF L.affine THEN <<"gamma", "beta", "running_mean", "running_var">> ELSE <<>>)
    ELSE <<>>

\* Layer::parameters(), by the layer's class: the fields whose addresses it
\* returns, in order.
LayerParameters(L) ==
    IF L.kind = "Linear" THEN <<"weight", "bias">>
    ELSE IF L.kind \in {"1d", "2d", "3d"}
    THEN (IF L.affine THEN <<"gamma", "beta">> ELSE <<>>)
    ELSE <<>>

\* A Tensor* into a layer of the Model: the layer's index and the field.
PtrParam(i, field) == <<i, field>>

\* Model::parameters() lines 332-337, from layer i on: params.insert(
\* params.end(), layer_params.begin(), layer_params.end()).
RECURSIVE ParametersLoop(_, _, _)
ParametersLoop(ls, i, params) ==
    IF i >= Len(ls) THEN params
    ELSE LET layer_params == LayerParameters(ls[i + 1])
         IN  ParametersLoop(ls, i + 1,
                 params \o [k \in 1..Len(layer_params) |-> PtrParam(i, layer_params[k])])

ModelParameters(ls) == ParametersLoop(ls, 0, <<>>)

\* *p, and an assignment through p, for a pointer parameters() returned
ParamDeref(ls, p) == ls[p[1] + 1][p[2]]

ParamStore(ls, p, t) == [ls EXCEPT ![p[1] + 1][p[2]] = t]

----------------------------------------------------------------------------
(* The Model under its caller: add_layer, forward and backward in any       *)
(* order.  The caller owns one input and one output tensor, both shaped     *)
(* [Batch, Feat] and sized with resize() and resize_grad(), and passes them  *)
(* to every call.  Every Linear layer is Linear(Feat, Feat), so that each    *)
(* chain of layers fits the tensors it is given.                            *)

\* in_features and out_features of the Linear layers the caller constructs
LinearDims == <<2, 2>>
Feat == LinearDims[1]

CallerTensor ==
    resize_grad(resize([shape |-> <<Batch, Feat>>, data |-> <<>>, grad |-> <<>>]))

\* values a caller writes into a buffer of n floats
Pattern(n, p) == MkSeq(n, LAMBDA i : FromInt(((2 * i + p) % 5) - 2))
InputData == {Pattern(Batch * Feat, p) : p \in {0, 1}}
SeedGrads(n) == {Pattern(n, p) : p \in {2, 3}}

\* the layers a caller adds: a ReLU, or a Linear with some initial values
LayerChoices ==
    {ReLULayer} \cup
    {NewLinear(LinearDims[1], LinearDims[2],
               MkSeq(Feat * Feat, LAMBDA i : FromInt(((i + s) % 3) - 1)),
               MkSeq(Feat, LAMBDA i : FromInt((i + s) % 2))) : s \in {0}}

ModelInit ==
    /\ layers = <<>>
    /\ activations = <<>>
    /\ inT = CallerTensor
    /\ outT = CallerTensor
    /\ res = [op |-> "new", err |-> "none", log |-> <<>>, preActs |-> 0]
    /\ hist = [everForward |-> FALSE, lastFwdLayers |-> -1, since |-> "none",
               rejectedStale |-> FALSE, nBackward |-> 0, fwdLog |-> <<>>]

\* Model::add_layer
AddLayer ==
    /\ Len(layers) < MaxLayers
    /\ \E L \in LayerChoices : layers' = Append(layers, L)
    /\ res' = [op |-> "add_layer", err |-> "none", log |-> <<>>,
               preActs |-> Len(activations)]
    /\ hist' = [hist EXCEPT !.since = IF hist.since = "none" THEN "none" ELSE "stale"]
    /\ UNCHANGED <<activations, inT, outT>>

\* the caller fills its input tensor and calls Model::forward(input, output)
Forward ==
    \E d \in InputData :
        \E r \in {ModelForward(layers, activations, [inT EXCEPT !.data = d], outT)} :
            /\ layers' = r.ls
            /\ activations' = r.acts
            /\ inT' = r.input
            /\ outT' = r.output
            /\ res' = [op |-> "forward", err |-> r.err, log |-> r.log,
                       preActs |-> Len(activations)]
            /\ hist' = [hist EXCEPT
                            !.everForward = TRUE,
                            !.lastFwdLayers = Len(layers),
                            !.since = IF r.err = "none" THEN "fresh" ELSE hist.since,
                            !.fwdLog = IF r.err = "none" THEN r.log ELSE hist.fwdLog]

\* the caller seeds the gradient of its output tensor and calls
\* Model::backward(output, input)
Backward ==
    /\ hist.nBackward < MaxBackward
    /\ \E g \in SeedGrads(Len(outT.data)) :
        \E r \in {ModelBackward(layers, activations, [outT EXCEPT !.grad = g], inT)} :
            /\ layers' = r.ls
            /\ activations' = r.acts
            /\ inT' = r.input
            /\ outT' = r.output
            /\ res' = [op |-> "backward", err |-> r.err, log |-> r.log,
                       preActs |-> Len(activations)]
            /\ hist' = [hist EXCEPT
                            !.nBackward = IF r.err = "IllegalState" THEN @ ELSE @ + 1,
                            !.rejectedStale =
                                @ \/ (hist.since = "stale" /\ r.err = "IllegalState")]

\* A Model that holds BatchNorm layers next to ReLU: a BatchNorm1d of the
\* tensors' feature count accepts what it is given, one of another feature
\* count throws from forward.  The layers keep no running statistics, so that
\* a repeated forward leaves them as they are.
NetLayerChoices ==
    {ReLULayer}
    \cup {NewBatchNorm("1d", nf, 1, ONE \div 4, TRUE, FALSE, ONE + 1) : nf \in {Feat, Feat + 1}}

NetAddLayer ==
    /\ Len(layers) < MaxNetLayers
    /\ \E L \in NetLayerChoices : layers' = Append(layers, L)
    /\ res' = [op |-> "add_layer", err |-> "none", log |-> <<>>,
               preActs |-> Len(activations)]
    /\ hist' = [hist EXCEPT !.since = IF hist.since = "none" THEN "none" ELSE "stale"]
    /\ UNCHANGED <<activations, inT, outT>>

----------------------------------------------------------------------------
(* The Model and parameters(): the caller adds layers of every class,       *)
(* calls parameters(), keeps the pointers it returned and writes a value    *)
(* through one of them, as an optimizer step does.                          *)

\* the layers this caller adds
ParamLayerChoices ==
    {ReLULayer, SigmoidLayer, TanhLayer}
    \cup {NewLinear(LinearDims[1], LinearDims[2],
                    MkSeq(Feat * Feat, LAMBDA i : FromInt(i)), MkSeq(Feat, LAMBDA i : FromInt(-i)))}
    \cup {NewBatchNorm(kind, LinearDims[2], 1, ONE \div 4, affine, TRUE, ONE + 1) :
              kind \in {"1d", "2d", "3d"}, affine \in BOOLEAN}

\* the value the caller writes into element 0 of a parameter
StepValue == FromInt(9) + 1

ParamsInit ==
    /\ layers = <<>>
    /\ activations = <<>>
    /\ inT = EmptyTensor
    /\ outT = EmptyTensor
    /\ res = [op |-> "new", params |-> <<>>, ptr |-> <<>>, pre |-> <<>>]
    /\ hist = [held |-> <<>>, written |-> FALSE]

\* Model::add_layer; the pointers the caller holds stay valid
PAddLayer ==
    /\ Len(layers) < MaxParamLayers
    /\ \E L \in ParamLayerChoices : layers' = Append(layers, L)
    /\ res' = [op |-> "add_layer", params |-> <<>>, ptr |-> <<>>, pre |-> layers]
    /\ UNCHANGED <<activations, inT, outT, hist>>

\* auto params = model.parameters()
PParameters ==
    /\ res.op # "parameters"
    /\ res' = [op |-> "parameters", params |-> ModelParameters(layers), ptr |-> <<>>,
               pre |-> layers]
    /\ hist' = [hist EXCEPT !.held = ModelParameters(layers)]
    /\ UNCHANGED <<layers, activations, inT, outT>>

\* params[k]->data[0] = v
PWrite ==
    /\ ~hist.written
    /\ \E k \in 1..Len(hist.held) :
           LET p == hist.held[k]
               t == ParamDeref(layers, p)
           IN  /\ layers' = ParamStore(layers, p, [t EXCEPT !.data[1] = StepValue])
               /\ res' = [op |-> "write", params |-> <<>>, ptr |-> p, pre |-> layers]
    /\ hist' = [hist EXCEPT !.written = TRUE]
    /\ UNCHANGED <<activations, inT, outT>>

----------------------------------------------------------------------------
(* One BatchNorm layer under its caller: forward and backward in any order, *)
(* each with a tensor the caller built.  The caller sets the shape and      *)
(* either sizes the buffer with resize() / resize_grad() and fills it, or   *)
(* leaves it empty.  BatchNorm1d::forward reads input.data without checking *)
(* its length, so its caller always sizes the data of a rank-2 input with   *)
(* the right feature count; the output tensors are default-constructed.     *)

Ones(k) == MkSeq(k, LAMBDA i : 1)
BNRank(kind) == IF kind = "1d" THEN 2 ELSE IF kind = "2d" THEN 4 ELSE 5

\* shapes the layer accepts
GoodShapes(kind, nf) ==
    LET R == BNRank(kind)
    IN  {<<2, nf>> \o Ones(R - 2),
         IF R = 2 THEN <<1, nf>> ELSE <<1, nf, 2>> \o Ones(R - 3)}

\* shapes the layer must reject: wrong channel count, a zero dimension, one
\* axis too many
BadShapes(kind, nf) ==
    LET R == BNRank(kind)
    IN  {<<2, nf + 1>> \o Ones(R - 2), <<0, nf>> \o Ones(R - 2), <<2, nf>> \o Ones(R - 1)}

Sized(shape) == Len(shape) # 0 /\ \A i \in 1..Len(shape) : shape[i] # 0

\* a buffer whose channel 0 holds one value everywhere and whose other
\* channels vary
FlatChannelData(shape) ==
    LET spatial == Product(SubSeq(shape, 3, Len(shape)))
    IN  MkSeq(Product(shape),
              LAMBDA i : IF ((i - 1) \div spatial) % shape[2] = 0
                         THEN FromInt(1) + 3
                         ELSE FromInt(((2 * i) % 5) - 2))

ForwardInputs(L) ==
    LET filled(shape) == {[shape |-> shape, data |-> Pattern(Product(shape), shape[1] - 1),
                           grad |-> <<>>]}
        empty(shape) == {[shape |-> shape, data |-> <<>>, grad |-> <<>>]}
    IN  UNION {filled(sh) : sh \in GoodShapes(L.kind, L.num_features)}
        \cup UNION {IF Sized(sh) THEN {[shape |-> sh, data |-> Pattern(Product(sh), 0),
                                        grad |-> <<>>]}
                    ELSE empty(sh) : sh \in BadShapes(L.kind, L.num_features)}
        \cup (IF L.kind = "1d" THEN {}
              ELSE empty(<<2, L.num_features>> \o Ones(BNRank(L.kind) - 2)))

\* inputs of the batch-2 shape whose channel 0 is flat
FlatInputs(L) ==
    {[shape |-> <<2, L.num_features>> \o Ones(BNRank(L.kind) - 2),
      data |-> FlatChannelData(<<2, L.num_features>> \o Ones(BNRank(L.kind) - 2)),
      grad |-> <<>>]}

BackwardInputs(L) ==
    LET filled(shape) == {[shape |-> shape, data |-> <<>>,
                           grad |-> Pattern(Product(shape), shape[1] + 1)]}
        empty(shape) == {[shape |-> shape, data |-> <<>>, grad |-> <<>>]}
    IN  UNION {filled(sh) : sh \in GoodShapes(L.kind, L.num_features)}
        \cup UNION {IF Sized(sh) THEN {[shape |-> sh, data |-> <<>>,
                                        grad |-> Pattern(Product(sh), 2)]}
                    ELSE empty(sh) : sh \in BadShapes(L.kind, L.num_features)}
        \cup {[shape |-> <<1, L.num_features>> \o Ones(BNRank(L.kind) - 2), data |-> <<>>,
               grad |-> Pattern(L.num_features, 2)]}
        \cup empty(<<2, L.num_features>> \o Ones(BNRank(L.kind) - 2))

\* positions of channel c in a tensor of the given shape: the flat indices
\* (0-based) whose axis-1 coordinate is c
Positions(shape, c) ==
    LET spatial == Product(SubSeq(shape, 3, Len(shape)))
    IN  {j \in 0..(Product(shape) - 1) : (j \div spatial) % shape[2] = c}

RECURSIVE SumOver(_, _)
SumOver(S, f) ==
    IF S = {} THEN 0
    ELSE LET j == CHOOSE x \in S : TRUE IN FAdd(f[j], SumOver(S \ {j}, f))

\* batch mean and biased variance of channel c of the buffer x
BatchMean(x, shape, c) ==
    LET P == Positions(shape, c)
    IN  FDiv(SumOver(P, [j \in P |-> x[j + 1]]), FromInt(Cardinality(P)))

BatchVar(x, shape, c) ==
    LET P == Positions(shape, c)
        m == BatchMean(x, shape, c)
    IN  FDiv(SumOver(P, [j \in P |-> FMul(FSub(x[j + 1], m), FSub(x[j + 1], m))]),
             FromInt(Cardinality(P)))

\* what one backward call contributes to beta.grad[c] and gamma.grad[c]:
\* the sum of dy, and of dy * x_hat, over the positions of channel c
BetaContribution(g, c) ==
    LET P == Positions(g.shape, c)
    IN  SumOver(P, [j \in P |-> g.grad[j + 1]])

GammaContribution(L, g, c) ==
    LET P == Positions(g.shape, c)
        m == BatchMean(L.input_data, g.shape, c)
        inv_std == FDiv(ONE, FSqrt(FAdd(BatchVar(L.input_data, g.shape, c), L.eps)))
    IN  SumOver(P, [j \in P |-> FMul(g.grad[j + 1], FMul(FSub(L.input_data[j + 1], m), inv_std))])

\* the constructor arguments the caller chooses from
NumFeatures == 2
EpsChoices == {1}
MomentumChoices == {ONE \div 4}
GammaChoices == {ONE + 1}
\* <<affine, track_running_stats>>
FlagChoices == BOOLEAN \X BOOLEAN

BNInit ==
    /\ bn \in {NewBatchNorm(kind, NumFeatures, eps, momentum, flags[1], flags[2], g) :
                  kind \in {"1d", "2d", "3d"}, eps \in EpsChoices, momentum \in MomentumChoices,
                  flags \in FlagChoices, g \in GammaChoices}
    /\ twin = [kind |-> "none"]
    /\ bres = [op |-> "new", err |-> "none", input |-> EmptyTensor, output |-> EmptyTensor,
               pre |-> bn, stats |-> <<>>]
    /\ bhist = [nForward |-> 0, nBackward |-> 0, nDirect |-> 0, fwdShape |-> <<>>,
                fwdData |-> <<>>, fwdStats |-> <<>>,
                sumGamma |-> Zeros(NumFeatures), sumBeta |-> Zeros(NumFeatures),
                lastGamma |-> Zeros(NumFeatures), lastBeta |-> Zeros(NumFeatures)]

\* the values a caller (an optimizer step, a loaded checkpoint) writes into
\* gamma and beta through the pointers parameters() returns
TrainedGamma(nf) == MkSeq(nf, LAMBDA k : ONE - 1)
TrainedBeta(nf) == MkSeq(nf, LAMBDA k : FromInt(k))

BNSetParams ==
    /\ bn.affine
    /\ bn.beta.data # TrainedBeta(bn.num_features)
    /\ bn' = [bn EXCEPT !.gamma.data = TrainedGamma(bn.num_features),
                        !.beta.data = TrainedBeta(bn.num_features)]
    /\ bres' = [op |-> "set", err |-> "none", input |-> EmptyTensor, output |-> EmptyTensor,
                pre |-> bn, stats |-> <<>>]
    /\ bhist' = bhist
    /\ UNCHANGED twin

\* the caller calls forward(input, output) with a fresh output tensor
BNForwardWith(inputs) ==
    \E input \in inputs :
        LET r == BatchNormForward(bn, input, EmptyTensor)
        IN  /\ r.err = "none" => bhist.nForward < MaxBNForward
            /\ bn' = r.layer
            /\ bres' = [op |-> "forward", err |-> r.err, input |-> input,
                        output |-> r.tensor, pre |-> bn, stats |-> r.stats]
            /\ bhist' = IF r.err # "none" THEN bhist
                        ELSE [bhist EXCEPT
                                !.nForward = @ + 1,
                                !.fwdShape = input.shape,
                                !.fwdData = input.data,
                                !.fwdStats = r.stats,
                                !.nDirect = IF bn.track_running_stats /\ bn.first_update
                                            THEN @ + 1 ELSE @]
            /\ UNCHANGED twin

BNForward == BNForwardWith(ForwardInputs(bn))
BNForwardTrained == BNForwardWith(ForwardInputs(bn) \cup FlatInputs(bn))

\* the caller calls backward(grad_output, grad_input) with a fresh grad_input
BNBackward ==
    \E g \in BackwardInputs(bn) :
        LET r == BatchNormBackward(bn, g, EmptyTensor)
            cg == MkSeq(NumFeatures, LAMBDA k : GammaContribution(bn, g, k - 1))
            cb == MkSeq(NumFeatures, LAMBDA k : BetaContribution(g, k - 1))
        IN  /\ r.err = "none" => bhist.nBackward < MaxBNBackward
            /\ bn' = r.layer
            /\ bres' = [op |-> "backward", err |-> r.err, input |-> g,
                        output |-> r.tensor, pre |-> bn, stats |-> r.stats]
            /\ bhist' = IF r.err # "none" THEN bhist
                        ELSE [bhist EXCEPT
                                !.nBackward = @ + 1,
                                !.lastGamma = cg,
                                !.lastBeta = cb,
                                !.sumGamma = MkSeq(NumFeatures, LAMBDA k : FAdd(@[k], cg[k])),
                                !.sumBeta = MkSeq(NumFeatures, LAMBDA k : FAdd(@[k], cb[k]))]
            /\ UNCHANGED twin

\* the caller empties gamma.grad through the pointer parameters() returns.
\* BatchNorm2d and BatchNorm3d test the length of the two gradients in
\* backward; BatchNorm1d writes beta.grad[f] without a test, so its caller
\* leaves them sized.
BNDropGrads ==
    /\ bn.affine
    /\ bn.kind \in {"2d", "3d"}
    /\ bn.gamma.grad # <<>>
    /\ bn' = [bn EXCEPT !.gamma.grad = <<>>]
    /\ bres' = [op |-> "drop", err |-> "none", input |-> EmptyTensor, output |-> EmptyTensor,
                pre |-> bn, stats |-> <<>>]
    /\ bhist' = bhist
    /\ UNCHANGED twin

----------------------------------------------------------------------------
(* Two BatchNorm layers of one class under one caller.  They are built with *)
(* the same eps, affine flag and initial gamma; the second has a momentum   *)
(* and a track_running_stats flag of its own.  The caller runs forward on   *)
(* the first layer alone, writes the same gamma and beta into both, and     *)
(* passes one input to both.                                                *)

PairMomentumChoices == {ONE \div 4, ONE \div 2}

PairRecord(op, r1, r2, input) ==
    [op |-> op, err |-> r1.err, err2 |-> r2.err, input |-> input,
     output |-> r1.tensor, output2 |-> r2.tensor, pre |-> bn, pre2 |-> twin]

PairInit ==
    /\ \E kind \in {"1d", "2d", "3d"}, eps \in EpsChoices, g \in GammaChoices,
          affine \in BOOLEAN, momentum2 \in PairMomentumChoices, track2 \in BOOLEAN :
          /\ bn = NewBatchNorm(kind, NumFeatures, eps, ONE \div 4, affine, TRUE, g)
          /\ twin = NewBatchNorm(kind, NumFeatures, eps, momentum2, affine, track2, g)
    /\ bres = PairRecord("new", Throw(bn, EmptyTensor, "none"),
                         Throw(twin, EmptyTensor, "none"), EmptyTensor)
    /\ bhist = [nForward |-> 0]

\* forward on the first layer alone
PairWarm ==
    \E input \in ForwardInputs(bn) :
        LET r == BatchNormForward(bn, input, EmptyTensor)
        IN  /\ r.err = "none" => bhist.nForward < MaxBNForward
            /\ bn' = r.layer
            /\ bres' = PairRecord("warm", r, Throw(twin, EmptyTensor, "none"), input)
            /\ bhist' = [bhist EXCEPT !.nForward = IF r.err = "none" THEN @ + 1 ELSE @]
            /\ UNCHANGED twin

\* the same gamma and beta written into both layers
PairSetParams ==
    /\ bn.affine
    /\ bn.beta.data # TrainedBeta(bn.num_features)
    /\ bn' = [bn EXCEPT !.gamma.data = TrainedGamma(bn.num_features),
                        !.beta.data = TrainedBeta(bn.num_features)]
    /\ twin' = [twin EXCEPT !.gamma.data = TrainedGamma(twin.num_features),
                            !.beta.data = TrainedBeta(twin.num_features)]
    /\ bres' = PairRecord("set", Throw(bn, EmptyTensor, "none"),
                          Throw(twin, EmptyTensor, "none"), EmptyTensor)
    /\ bhist' = bhist

\* forward on both layers with one input, each into a fresh output tensor
PairForward ==
    \E input \in ForwardInputs(bn) \cup FlatInputs(bn) :
        LET r1 == BatchNormForward(bn, input, EmptyTensor)
            r2 == BatchNormForward(twin, input, EmptyTensor)
        IN  /\ r1.err = "none" => bhist.nForward < MaxBNForward
            /\ bn' = r1.layer
            /\ twin' = r2.layer
            /\ bres' = PairRecord("pair", r1, r2, input)
            /\ bhist' = [bhist EXCEPT !.nForward = IF r1.err = "none" THEN @ + 1 ELSE @]

----------------------------------------------------------------------------
(* One Linear or ReLU layer under its caller, as the layer tests drive it:  *)
(* the caller owns an input tensor x and an output tensor y, calls          *)
(* forward(x, y), seeds y.grad, and calls backward(y, x), any number of     *)
(* times and with new values written into x.data in between.                *)

\* in_features and out_features of the Linear layer under test
LayerDims == <<3, 2>>

LayerUnderTest ==
    {ReLULayer,
     NewLinear(LayerDims[1], LayerDims[2],
               MkSeq(LayerDims[1] * LayerDims[2], LAMBDA i : FromInt(((i * i) % 5) - 2) + 1),
               MkSeq(LayerDims[2], LAMBDA i : FromInt(i) - 3))}

\* the output tensor before the first forward: default-constructed, or one
\* that an earlier use left with another shape and other values
StaleOutput ==
    [shape |-> <<3, 3>>, data |-> MkSeq(9, LAMBDA i : FromInt(7)), grad |-> <<>>]

LayerInit ==
    /\ lyr \in LayerUnderTest
    /\ \E b \in 1..2 :
          lx = [resize([shape |-> <<b, LayerDims[1]>>, data |-> <<>>, grad |-> <<>>])
                   EXCEPT !.data = Pattern(b * LayerDims[1], 0)]
    /\ ly \in {EmptyTensor, StaleOutput}
    /\ lres = [op |-> "new", pre |-> lyr, x0 |-> lx, y0 |-> ly]
    /\ lhist = [fwdInput |-> <<>>, nBackward |-> 0, args |-> <<>>, mixed |-> FALSE]

\* x.data = {...}
LSetInput ==
    \E p \in {0, 1} :
        /\ lx.data # Pattern(Len(lx.data), p)
        /\ lx' = [lx EXCEPT !.data = Pattern(Len(lx.data), p)]
        /\ lres' = [op |-> "set", pre |-> lyr, x0 |-> lx, y0 |-> ly]
        /\ UNCHANGED <<lyr, ly, lhist>>

\* layer.forward(x, y)
LForward ==
    LET r == LayerForward(lyr, lx, ly)
    IN  /\ lyr' = r.layer
        /\ ly' = r.tensor
        /\ lres' = [op |-> "forward", pre |-> lyr, x0 |-> lx, y0 |-> ly]
        /\ lhist' = [lhist EXCEPT !.fwdInput = lx.data]
        /\ UNCHANGED lx

\* y.resize_grad(); y.grad = {...}
LSeedGrad ==
    \E p \in {2, 3} :
        /\ validate_shape(ly)
        /\ lhist.fwdInput # <<>>
        /\ ly.grad # Pattern(size(ly), p)
        /\ ly' = [resize_grad(ly) EXCEPT !.grad = Pattern(size(ly), p)]
        /\ lres' = [op |-> "seed", pre |-> lyr, x0 |-> lx, y0 |-> ly]
        /\ UNCHANGED <<lyr, lx, lhist>>

\* layer.backward(y, x), once y holds a forward output and a gradient
LBackward ==
    LET r == LayerBackward(lyr, ly, lx)
    IN  /\ lhist.fwdInput # <<>>
        /\ validate_shape(ly)
        /\ Len(ly.grad) = size(ly)
        /\ lhist.nBackward < MaxLayerBackward
        /\ lyr' = r.layer
        /\ lx' = r.tensor
        /\ lres' = [op |-> "backward", pre |-> lyr, x0 |-> lx, y0 |-> ly]
        /\ lhist' = [lhist EXCEPT
                       !.nBackward = @ + 1,
                       !.args = IF lhist.nBackward = 0 THEN <<lx.data, ly.grad>> ELSE @,
                       !.mixed = @ \/ (lhist.nBackward > 0 /\ lhist.args # <<lx.data, ly.grad>>)]
        /\ UNCHANGED ly

----------------------------------------------------------------------------
(* One Tensor under its caller.  shape, data and grad are public: the       *)
(* caller assigns them and calls size(), resize(), resize_grad(),           *)
(* zero_grad() and mse_loss() in any order.                                 *)

\* the square root of the range of size_t: the square of this dimension
\* wraps to 0
HalfRange == 2 ^ (SizeBits \div 2)

\* a call on a Tensor: the tensor after it, the exception it threw, and the
\* value it returned (0 when it returns nothing)
TensorSize(t) ==
    IF ~validate_shape(t) THEN [tensor |-> t, err |-> "InvalidShape", ret |-> 0]
    ELSE [tensor |-> t, err |-> "none", ret |-> size(t)]

\* std::vector::resize throws std::length_error beyond max_size() and leaves
\* the vector as it was
TensorResize(t) ==
    IF ~validate_shape(t) THEN [tensor |-> t, err |-> "InvalidShape", ret |-> 0]
    ELSE IF size(t) > VectorMaxSize THEN [tensor |-> t, err |-> "length_error", ret |-> 0]
    ELSE [tensor |-> resize(t), err |-> "none", ret |-> 0]

TensorResizeGrad(t) ==
    IF ~validate_shape(t) THEN [tensor |-> t, err |-> "InvalidShape", ret |-> 0]
    ELSE IF size(t) > VectorMaxSize THEN [tensor |-> t, err |-> "length_error", ret |-> 0]
    ELSE [tensor |-> resize_grad(t), err |-> "none", ret |-> 0]

TensorZeroGrad(t) == [tensor |-> zero_grad(t), err |-> "none", ret |-> 0]

\* mse_loss(pred, target).  nan: loss.data[0] is 0.0f / 0, a NaN, and the
\* number in loss.data says nothing.
mse_loss(pred, target) ==
    LET n == Len(pred.data)
        loss == resize([shape |-> <<1>>, data |-> <<>>, grad |-> <<>>])
        total == AccSeq(0, [i \in 1..n |-> FMul(FSub(pred.data[i], target.data[i]),
                                                FSub(pred.data[i], target.data[i]))], n)
    IN  IF Len(pred.data) # Len(target.data)
        THEN [loss |-> EmptyTensor, err |-> "SizeMismatch", nan |-> FALSE]
        ELSE IF n = 0
        THEN [loss |-> loss, err |-> "none", nan |-> TRUE]
        ELSE [loss |-> [loss EXCEPT !.data[1] = FDiv(total, FromInt(n))],
              err |-> "none", nan |-> FALSE]

\* the shapes a caller assigns
TensorShapes ==
    {<<>>, <<0>>, <<3>>, <<2, 0>>, <<2, 2>>, <<HalfRange, HalfRange>>, <<SizeMod - 1>>}

TensorRecord(op, r, pre, arg, out, nan) ==
    [op |-> op, err |-> r.err, ret |-> r.ret, pre |-> pre, arg |-> arg, out |-> out,
     nan |-> nan]

TensorInit ==
    /\ tensor = EmptyTensor
    /\ tres = TensorRecord("new", [err |-> "none", ret |-> 0], EmptyTensor, EmptyTensor,
                           EmptyTensor, FALSE)

\* t.shape = {...}
TSetShape ==
    \E sh \in TensorShapes :
        /\ sh # tensor.shape
        /\ tensor' = [tensor EXCEPT !.shape = sh]
        /\ tres' = TensorRecord("shape", [err |-> "none", ret |-> 0], tensor, EmptyTensor,
                                EmptyTensor, FALSE)

\* t.data = {...}
TAssignData ==
    /\ tensor.data # Pattern(3, 0)
    /\ tensor' = [tensor EXCEPT !.data = Pattern(3, 0)]
    /\ tres' = TensorRecord("data", [err |-> "none", ret |-> 0], tensor, EmptyTensor,
                            EmptyTensor, FALSE)

\* t.grad = {...}
TAssignGrad ==
    /\ tensor.grad # Pattern(3, 2)
    /\ tensor' = [tensor EXCEPT !.grad = Pattern(3, 2)]
    /\ tres' = TensorRecord("grad", [err |-> "none", ret |-> 0], tensor, EmptyTensor,
                            EmptyTensor, FALSE)

TCall(op, r) ==
    /\ tensor' = r.tensor
    /\ tres' = TensorRecord(op, r, tensor, EmptyTensor, EmptyTensor, FALSE)

TSize == TCall("size", TensorSize(tensor))
TResize == TCall("resize", TensorResize(tensor))
TResizeGrad == TCall("resize_grad", TensorResizeGrad(tensor))
TZeroGrad == TCall("zero_grad", TensorZeroGrad(tensor))

\* the targets a caller compares the tensor with: the tensor itself, a
\* default-constructed one, one of the same length holding other values, one
\* that is one element longer
MseTargets(t) ==
    {t, EmptyTensor,
     [t EXCEPT !.data = MkSeq(Len(t.data), LAMBDA i : FromInt(1))],
     [t EXCEPT !.data = MkSeq(Len(t.data) + 1, LAMBDA i : 0)]}

TMseLoss ==
    \E target \in MseTargets(tensor) :
        LET r == mse_loss(tensor, target)
        IN  /\ tensor' = tensor
            /\ tres' = TensorRecord("mse_loss", [err |-> r.err, ret |-> 0], tensor, target,
                                    r.loss, r.nan)

----------------------------------------------------------------------------
(* The BatchNorm layer when the Model is checked, and the Model when the    *)
(* BatchNorm layer is checked: not constructed, never touched.              *)

BNIdle ==
    /\ bn = [kind |-> "none"] /\ twin = [kind |-> "none"]
    /\ bres = [op |-> "none"] /\ bhist = [n |-> 0]
ModelIdle ==
    /\ layers = <<>> /\ activations = <<>> /\ inT = EmptyTensor /\ outT = EmptyTensor
    /\ res = [op |-> "none"] /\ hist = [n |-> 0]

LayerIdle ==
    /\ lyr = [kind |-> "none"] /\ lx = EmptyTensor /\ ly = EmptyTensor
    /\ lres = [op |-> "none"] /\ lhist = [n |-> 0]
TensorIdle == tensor = EmptyTensor /\ tres = [op |-> "none"]

Init == ModelInit /\ BNIdle /\ LayerIdle /\ TensorIdle
Next ==
    \/ AddLayer /\ UNCHANGED <<bnVars, layerVars, tensorVars>>
    \/ Forward /\ UNCHANGED <<bnVars, layerVars, tensorVars>>
    \/ Backward /\ UNCHANGED <<bnVars, layerVars, tensorVars>>
Spec == Init /\ [][Next]_vars

NextNet ==
    \/ NetAddLayer /\ UNCHANGED <<bnVars, layerVars, tensorVars>>
    \/ Forward /\ UNCHANGED <<bnVars, layerVars, tensorVars>>
    \/ Backward /\ UNCHANGED <<bnVars, layerVars, tensorVars>>
SpecNet == Init /\ [][NextNet]_vars

InitParams == ParamsInit /\ BNIdle /\ LayerIdle /\ TensorIdle
NextParams ==
    \/ PAddLayer /\ UNCHANGED <<bnVars, layerVars, tensorVars>>
    \/ PParameters /\ UNCHANGED <<bnVars, layerVars, tensorVars>>
    \/ PWrite /\ UNCHANGED <<bnVars, layerVars, tensorVars>>
SpecParams == InitParams /\ [][NextParams]_vars

InitBN == BNInit /\ ModelIdle /\ LayerIdle /\ TensorIdle
NextBN ==
    \/ BNForward /\ UNCHANGED <<modelVars, layerVars, tensorVars>>
    \/ BNBackward /\ UNCHANGED <<modelVars, layerVars, tensorVars>>
SpecBN == InitBN /\ [][NextBN]_vars

\* a layer whose parameters the caller overwrites, driven through forward
NextBNTrained ==
    \/ BNSetParams /\ UNCHANGED <<modelVars, layerVars, tensorVars>>
    \/ BNForwardTrained /\ UNCHANGED <<modelVars, layerVars, tensorVars>>
SpecBNTrained == InitBN /\ [][NextBNTrained]_vars

\* forward and backward on a layer whose caller may empty a parameter gradient
NextBNFault ==
    \/ BNForward /\ UNCHANGED <<modelVars, layerVars, tensorVars>>
    \/ BNBackward /\ UNCHANGED <<modelVars, layerVars, tensorVars>>
    \/ BNDropGrads /\ UNCHANGED <<modelVars, layerVars, tensorVars>>
SpecBNFault == InitBN /\ [][NextBNFault]_vars

InitBNPair == PairInit /\ ModelIdle /\ LayerIdle /\ TensorIdle
NextBNPair ==
    \/ PairWarm /\ UNCHANGED <<modelVars, layerVars, tensorVars>>
    \/ PairSetParams /\ UNCHANGED <<modelVars, layerVars, tensorVars>>
    \/ PairForward /\ UNCHANGED <<modelVars, layerVars, tensorVars>>
SpecBNPair == InitBNPair /\ [][NextBNPair]_vars

InitLayer == LayerInit /\ ModelIdle /\ BNIdle /\ TensorIdle
NextLayer ==
    \/ LSetInput /\ UNCHANGED <<modelVars, bnVars, tensorVars>>
    \/ LForward /\ UNCHANGED <<modelVars, bnVars, tensorVars>>
    \/ LSeedGrad /\ UNCHANGED <<modelVars, bnVars, tensorVars>>
    \/ LBackward /\ UNCHANGED <<modelVars, bnVars, tensorVars>>
SpecLayer == InitLayer /\ [][NextLayer]_vars

InitTensor == TensorInit /\ ModelIdle /\ BNIdle /\ LayerIdle
NextTensor ==
    \/ TSetShape /\ UNCHANGED <<modelVars, bnVars, layerVars>>
    \/ TAssignData /\ UNCHANGED <<modelVars, bnVars, layerVars>>
    \/ TAssignGrad /\ UNCHANGED <<modelVars, bnVars, layerVars>>
    \/ TSize /\ UNCHANGED <<modelVars, bnVars, layerVars>>
    \/ TResize /\ UNCHANGED <<modelVars, bnVars, layerVars>>
    \/ TResizeGrad /\ UNCHANGED <<modelVars, bnVars, layerVars>>
    \/ TZeroGrad /\ UNCHANGED <<modelVars, bnVars, layerVars>>
    \/ TMseLoss /\ UNCHANGED <<modelVars, bnVars, layerVars>>
SpecTensor == InitTensor /\ [][NextTensor]_vars

----------------------------------------------------------------------------
(* Properties of the Model (specification Spec).                            *)

\* hist.everForward: Model::forward has been called (whatever it returned).
\* hist.lastFwdLayers: the layer count at the most recent forward call.
\* hist.since: "none" until a forward succeeds, "fresh" after a successful
\*   forward, "stale" once add_layer is called after it.
\* hist.fwdLog: the layer calls of the most recent successful forward.

CallerState == [acts |-> activations, input |-> inT, output |-> outT]

\* the tensor after the first k layers, each applied to the result of the
\* one before
RECURSIVE Chain(_, _, _)
Chain(ls, input, k) ==
    IF k = 0 THEN input
    ELSE LayerForward(ls[k], Chain(ls, input, k - 1), EmptyTensor).tensor

\* C1: Model.backward on a Model on which forward has never been called fails
\* with IllegalState, whatever the number of layers.
C1_BackwardBeforeForwardFails ==
    (res.op = "backward" /\ ~hist.everForward) => res.err = "IllegalState"

\* C2: Model.forward on a model with n >= 1 layers calls each layer's forward
\* once, in index order: layer 0 reads the caller's input, layer i + 1 reads
\* the activation layer i wrote, the last layer writes the caller's output;
\* the result is the layers' forward functions applied one after another.
C2_ForwardChainsLayers ==
    (res.op = "forward" /\ Len(layers) >= 1 /\ res.err = "none") =>
        LET n == Len(layers) IN
        /\ Len(res.log) = n
        /\ \A k \in 1..n :
            /\ res.log[k].layer = k - 1
            /\ res.log[k].src = (IF k = 1 THEN PtrInput ELSE PtrAct(k - 2))
            /\ res.log[k].dst = (IF k = n THEN PtrOutput ELSE PtrAct(k - 1))
        /\ \A k \in 1..(n - 1) :
            /\ activations[k].shape = Chain(layers, inT, k).shape
            /\ activations[k].data = Chain(layers, inT, k).data
        /\ outT.shape = Chain(layers, inT, n).shape
        /\ outT.data = Chain(layers, inT, n).data

C2_Witness ==
    /\ res.op = "forward" /\ res.err = "none" /\ Len(layers) = 3
    /\ layers[2].kind = "ReLU" /\ layers[3].kind = "Linear"
    /\ outT.data # inT.data

\* C3: Model.backward after a successful forward calls each layer's backward
\* once, in reverse index order: layer i reads the gradient of the tensor it
\* wrote during forward and writes the gradient of the tensor it read, so the
\* gradient layer i + 1 wrote is the one layer i reads.
C3_BackwardMirrorsForward ==
    (res.op = "backward" /\ res.err = "none") =>
        LET n == Len(layers) IN
        /\ Len(res.log) = n
        /\ \A k \in 1..n :
            LET i == n - k IN
            /\ res.log[k].layer = i
            /\ res.log[k].src = (IF i = n - 1 THEN PtrOutput ELSE PtrAct(i))
            /\ res.log[k].dst = (IF i = 0 THEN PtrInput ELSE PtrAct(i - 1))
            /\ hist.since = "fresh" =>
                /\ res.log[k].src = hist.fwdLog[i + 1].dst
                /\ res.log[k].dst = hist.fwdLog[i + 1].src
            /\ Deref(CallerState, res.log[k].dst).grad =
                   LayerBackward(layers[i + 1], Deref(CallerState, res.log[k].src),
                                 Deref(CallerState, res.log[k].dst)).tensor.grad
        /\ \A k \in 1..(n - 1) : res.log[k].dst = res.log[k + 1].src

C3_Witness ==
    /\ res.op = "backward" /\ res.err = "none" /\ hist.since = "fresh"
    /\ Len(layers) = 3 /\ Len(res.log) = 3
    /\ \E x \in 1..Len(inT.grad) : inT.grad[x] # 0

\* C4: the activation cache holds 0 entries or (layer count at the most
\* recent forward) - 1 entries; a successful forward leaves it with
\* layer_count - 1 entries and backward never changes its length.
C4_ActivationCacheSize ==
    /\ \/ Len(activations) = 0
       \/ hist.lastFwdLayers >= 1 /\ Len(activations) = hist.lastFwdLayers - 1
    /\ (res.op = "forward" /\ res.err = "none") => Len(activations) = Len(layers) - 1
    /\ res.op = "backward" => Len(activations) = res.preActs

C4_Witness ==
    /\ res.op = "backward" /\ res.err = "IllegalState"
    /\ Len(activations) = 1 /\ Len(layers) = 3 /\ hist.lastFwdLayers = 2

\* C5: after add_layer follows the most recent forward, Model.backward fails
\* with IllegalState before it calls any layer; after a new forward it is
\* accepted again.
C5_StaleCacheRejected ==
    res.op = "backward" =>
        /\ hist.since = "stale" => (res.err = "IllegalState" /\ res.log = <<>>)
        /\ hist.since = "fresh" => res.err # "IllegalState"

C5_Witness ==
    /\ hist.rejectedStale /\ hist.since = "fresh"
    /\ res.op = "backward" /\ res.err = "none" /\ Len(res.log) = Len(layers)

\* C24: Model.forward on a Model with zero layers does not return normally
\* and calls no layer: the activation count layer_count - 1 wraps to the
\* largest size_t value, which no vector can be resized to.
C24_ForwardWithoutLayersFails ==
    (res.op = "forward" /\ Len(layers) = 0) =>
        /\ res.err # "none"
        /\ res.log = <<>>
        /\ ForwardActivationCount(layers) = SizeMod - 1
        /\ Len(activations) = res.preActs

\* a forward call on the Model as constructed
C24_Witness ==
    /\ res.op = "forward"
    /\ Len(layers) = 0
    /\ res.err = "length_error"
    /\ hist.everForward

----------------------------------------------------------------------------
(* The Model with layers that throw, checked under SpecNet.                 *)

\* C25: Model.forward sizes the activation cache to layer_count - 1 before it
\* runs a layer and does not undo this when a layer throws: after a forward
\* that failed in some layer the cache holds layer_count - 1 entries, and a
\* following Model.backward passes the forward-must-precede-backward check
\* (it calls the last layer's backward) although no forward has completed.
C25_FailedForwardKeepsCache ==
    /\ (res.op = "forward" /\ res.err # "none" /\ Len(layers) >= 1) =>
           /\ Len(res.log) >= 1
           /\ Len(activations) = Len(layers) - 1
    /\ (res.op = "backward" /\ hist.everForward /\ hist.since = "none"
           /\ hist.lastFwdLayers = Len(layers) /\ Len(layers) >= 1) =>
           /\ Len(activations) = Len(layers) - 1
           /\ Len(res.log) >= 1
           /\ res.log[1].layer = Len(layers) - 1

\* a backward that reached the last layer of a two-layer model whose only
\* forward ran the first layer and failed in the second
C25_Witness ==
    /\ res.op = "backward"
    /\ hist.everForward
    /\ hist.since = "none"
    /\ Len(layers) = 2
    /\ hist.lastFwdLayers = 2
    /\ res.preActs = 1
    /\ activations[1].data # <<>>
    /\ Len(res.log) = 1
    /\ res.err = "ShapeMismatch"

----------------------------------------------------------------------------
(* Model::parameters(), checked under SpecParams.                           *)

\* what each class exposes: Linear its weight and bias, an affine BatchNorm
\* its gamma and beta, every other layer nothing
ExposedFields(L) ==
    CASE L.kind = "Linear" -> <<"weight", "bias">>
      [] L.kind \in {"ReLU", "Sigmoid", "Tanh"} -> <<>>
      [] OTHER -> IF L.affine THEN <<"gamma", "beta">> ELSE <<>>

\* the concatenation, in layer order, of what the layers expose
RECURSIVE ExposedParameters(_)
ExposedParameters(ls) ==
    IF ls = <<>> THEN <<>>
    ELSE LET n == Len(ls)
             f == ExposedFields(ls[n])
         IN  ExposedParameters(SubSeq(ls, 1, n - 1)) \o [k \in 1..Len(f) |-> <<n - 1, f[k]>>]

\* C21: Model.parameters() returns, in layer order, [weight, bias] of every
\* Linear and [gamma, beta] of every affine BatchNorm and nothing for ReLU,
\* Sigmoid, Tanh and non-affine BatchNorm; the running statistics never
\* appear; the entries are the layers' own tensors, so a value written
\* through one is in the layer, and in no other tensor.
C21_ModelParameters ==
    /\ res.op = "parameters" =>
           /\ res.params = ExposedParameters(layers)
           /\ \A k \in 1..Len(res.params) :
                  res.params[k][2] \notin {"running_mean", "running_var"}
           /\ layers = res.pre
    /\ res.op = "write" =>
           /\ layers[res.ptr[1] + 1][res.ptr[2]].data[1] = StepValue
           /\ Len(layers) = Len(res.pre)
           /\ \A i \in 1..Len(layers) :
                  \A f \in DOMAIN layers[i] :
                      (<<i - 1, f>> # res.ptr) => layers[i][f] = res.pre[i][f]
           /\ ModelParameters(layers) = ModelParameters(res.pre)

\* parameters() of a model holding a non-affine BatchNorm, a Linear and an
\* affine BatchNorm, after a write through a pointer an earlier call returned
C21_Witness ==
    /\ res.op = "parameters"
    /\ hist.written
    /\ Len(layers) = 3
    /\ layers[1].kind = "2d" /\ ~layers[1].affine
    /\ layers[2].kind = "Linear"
    /\ layers[3].kind = "3d" /\ layers[3].affine
    /\ res.params = <<<<1, "weight">>, <<1, "bias">>, <<2, "gamma">>, <<2, "beta">>>>
    /\ layers[2].weight.data[1] = StepValue


----------------------------------------------------------------------------
(* BatchNorm properties, checked under SpecBN.  std::invalid_argument is    *)
(* "ShapeMismatch" when the layer throws it and "InvalidShape" when         *)
(* Tensor::size() throws it; std::runtime_error is "IllegalState".          *)

\* C6: a BatchNorm backward call made when no forward call has succeeded
\* fails with IllegalState, whatever gradient tensor is passed.
C6_BackwardBeforeForwardFails ==
    (bres.op = "backward" /\ bhist.nForward = 0) => bres.err = "IllegalState"

\* C7: a BatchNorm backward call whose gradient shape differs from the shape
\* of the last forward input fails with ShapeMismatch, writes no gradient and
\* leaves the layer as it was.
C7_BackwardShapeMismatchFails ==
    (bres.op = "backward" /\ bhist.nForward >= 1 /\ bres.input.shape # bhist.fwdShape)
        => (bres.err = "ShapeMismatch" /\ bres.output = EmptyTensor /\ bn = bres.pre)

\* the rank is not the layer's rank, or axis 1 is not num_features
RankOrChannelWrong(L, shape) ==
    Len(shape) # BNRank(L.kind) \/ shape[2] # L.num_features

\* C8 as stated: forward fails with ShapeMismatch when the rank or the
\* channel count is wrong, and succeeds with an output of the input's shape
\* in every other case.
C8_ForwardShapeCheckAsStated ==
    bres.op = "forward" =>
        IF RankOrChannelWrong(bres.pre, bres.input.shape)
        THEN bres.err = "ShapeMismatch"
        ELSE bres.err = "none" /\ bres.output.shape = bres.input.shape

\* C8: forward fails with ShapeMismatch when the rank or the channel count
\* is wrong.  Otherwise it fails with InvalidShape when a dimension is zero,
\* the 2d and 3d layers fail with IllegalState when the data buffer does not
\* hold product(shape) elements, and a well-formed input succeeds with an
\* output of the input's shape, sized to it.
C8_ForwardShapeCheck ==
    bres.op = "forward" =>
        IF RankOrChannelWrong(bres.pre, bres.input.shape)
        THEN bres.err = "ShapeMismatch"
        ELSE IF ~Sized(bres.input.shape)
        THEN bres.err = "InvalidShape"
        ELSE IF Len(bres.input.data) # Product(bres.input.shape)
        THEN bres.pre.kind \in {"2d", "3d"} => bres.err = "IllegalState"
        ELSE /\ bres.err = "none"
             /\ bres.output.shape = bres.input.shape
             /\ Len(bres.output.data) = Product(bres.input.shape)

\* a forward call rejected for its channel count, on a layer that has
\* already accepted a well-formed input
C8_Witness ==
    /\ bres.op = "forward"
    /\ bres.err = "ShapeMismatch"
    /\ Len(bres.input.shape) = BNRank(bn.kind)
    /\ bhist.nForward >= 1

\* C9: with running statistics tracked, the first successful forward assigns
\* the batch mean and variance to running_mean and running_var, every later
\* one blends them in as (1 - momentum) * running + momentum * batch, and the
\* direct assignment happens exactly once in the layer's life.
C9_RunningStats ==
    /\ bhist.nDirect = (IF bn.track_running_stats /\ bhist.nForward >= 1 THEN 1 ELSE 0)
    /\ (bres.op = "forward" /\ bres.err = "none" /\ bn.track_running_stats) =>
          \A c \in 1..bn.num_features :
              LET m == BatchMean(bres.input.data, bres.input.shape, c - 1)
                  v == BatchVar(bres.input.data, bres.input.shape, c - 1)
                  keep == FSub(ONE, bn.momentum)
              IN  IF bhist.nForward = 1
                  THEN /\ bn.running_mean.data[c] = m
                       /\ bn.running_var.data[c] = v
                  ELSE /\ bn.running_mean.data[c] =
                              FAdd(FMul(keep, bres.pre.running_mean.data[c]), FMul(bn.momentum, m))
                       /\ bn.running_var.data[c] =
                              FAdd(FMul(keep, bres.pre.running_var.data[c]), FMul(bn.momentum, v))

\* a second successful forward whose blended running mean is neither the old
\* running mean nor the batch mean
C9_Witness ==
    /\ bres.op = "forward"
    /\ bres.err = "none"
    /\ bn.track_running_stats
    /\ bhist.nForward = 2
    /\ bn.running_mean.data # bres.pre.running_mean.data
    /\ \E c \in 1..bn.num_features :
           bn.running_mean.data[c] # BatchMean(bres.input.data, bres.input.shape, c - 1)

\* C10: gamma.grad and beta.grad of the 2d and 3d layers hold the
\* contribution of the last successful backward call only; those of the 1d
\* layer hold the sum of the contributions of all successful backward calls.
C10_ParamGradAccumulation ==
    bn.affine =>
        IF bn.kind = "1d"
        THEN bn.gamma.grad = bhist.sumGamma /\ bn.beta.grad = bhist.sumBeta
        ELSE bhist.nBackward >= 1 =>
                 bn.gamma.grad = bhist.lastGamma /\ bn.beta.grad = bhist.lastBeta

\* a 2d layer after two successful backward calls whose contributions do not
\* sum to the last one
C10_Witness ==
    /\ bn.kind = "2d"
    /\ bn.affine
    /\ bhist.nBackward = 2
    /\ bres.op = "backward"
    /\ bres.err = "none"
    /\ bhist.sumGamma # bhist.lastGamma
    /\ bhist.sumBeta # bhist.lastBeta
    /\ bn.gamma.grad = bhist.lastGamma

\* bhist.fwdData, bhist.fwdStats: the input of the most recent successful
\* forward and the per-channel mean and variance that call normalised with.
\* bres.stats: the per-channel mean and variance the call computed.

\* C22: backward computes mean and variance from the input buffer the most
\* recent successful forward cached and from nothing else: they are the
\* per-channel mean and variance that forward call normalised with.
C22_BackwardUsesForwardStats ==
    (bres.op = "backward" /\ bres.err = "none") =>
        /\ bres.pre.input_data = bhist.fwdData
        /\ \A c \in 1..bn.num_features :
               /\ bres.stats[c].mean = bhist.fwdStats[c].mean
               /\ bres.stats[c].var = bhist.fwdStats[c].var

\* the flat indices the loops of a layer of this class visit for channel c
\* of a tensor of this shape
ChannelIdx(kind, shape, c) ==
    IF kind = "1d" THEN ChannelIdx1d(shape[1], shape[2], c)
    ELSE IF kind = "2d" THEN ChannelIdx2d(shape[1], shape[2], shape[3], shape[4], c)
    ELSE ChannelIdx3d(shape[1], shape[2], shape[3], shape[4], shape[5], c)

\* how many loop iterations, over all channels, write flat index j
WriteCount(kind, shape, j) ==
    Cardinality({cp \in (0..(shape[2] - 1)) \X (1..(Product(shape) \div shape[2])) :
                    ChannelIdx(kind, shape, cp[1])[cp[2]] = j})

AllZero(v) == \A i \in 1..Len(v) : v[i] = 0

\* C23: for an affine layer whose gamma and beta gradients are zero before
\* the call, one backward leaves beta.grad[c] equal to the sum of the upstream
\* gradient over the positions of channel c and of no other channel, and
\* gamma.grad[c] equal to the sum of dy * x_hat over the same positions; every
\* element of grad_input.grad is written exactly once.
C23_BackwardParamGrads ==
    (bres.op = "backward" /\ bres.err = "none" /\ bres.pre.affine
        /\ AllZero(bres.pre.gamma.grad) /\ AllZero(bres.pre.beta.grad)) =>
        /\ \A c \in 0..(bn.num_features - 1) :
               /\ bn.beta.grad[c + 1] = BetaContribution(bres.input, c)
               /\ bn.gamma.grad[c + 1] = GammaContribution(bres.pre, bres.input, c)
               /\ Len(ChannelIdx(bn.kind, bres.input.shape, c)) =
                      Cardinality(Positions(bres.input.shape, c))
        /\ Len(bres.output.grad) = Product(bres.input.shape)
        /\ \A j \in 0..(Product(bres.input.shape) - 1) :
               WriteCount(bn.kind, bres.input.shape, j) = 1

\* the first backward of an affine 2d layer on a gradient with two rows per
\* channel, leaving gradients that differ between the channels
C23_Witness ==
    /\ bres.op = "backward"
    /\ bres.err = "none"
    /\ bn.kind = "2d"
    /\ bn.affine
    /\ bhist.nBackward = 1
    /\ bres.input.shape[3] = 2
    /\ AllZero(bres.pre.gamma.grad)
    /\ bn.beta.grad[1] # bn.beta.grad[2]
    /\ bn.gamma.grad[1] # 0
    /\ \E j \in 1..Len(bres.output.grad) : bres.output.grad[j] # 0

----------------------------------------------------------------------------
(* Failing BatchNorm calls, checked under SpecBNFault.                      *)

\* C26: a BatchNorm forward or backward call that fails, with whichever of
\* its errors and for each of the three classes, leaves the layer exactly as
\* it was: cached input, running statistics, first-update flag, gamma and
\* beta with their gradients.  A failed first forward does not use up the
\* direct assignment of the running statistics, and a failed 2d / 3d backward
\* does not zero the parameter gradients.
C26_FailedCallLeavesLayer ==
    (bres.op \in {"forward", "backward"} /\ bres.err # "none") =>
        /\ bn = bres.pre
        /\ bhist.nForward = 0 => bn.first_update
        /\ bn.input_data = bhist.fwdData

\* a 2d backward that failed the gradient-length test on a layer holding the
\* cache of a forward and the beta gradient of an earlier backward
C26_Witness ==
    /\ bres.op = "backward"
    /\ bres.err = "IllegalState"
    /\ bn.kind = "2d"
    /\ bn.affine
    /\ bn.track_running_stats
    /\ bn.gamma.grad = <<>>
    /\ \E c \in 1..Len(bn.beta.grad) : bn.beta.grad[c] # 0
    /\ bn.input_data # <<>>
    /\ bhist.nBackward >= 1
    /\ bres.input.shape = bhist.fwdShape
    /\ bres.input.grad # <<>>

----------------------------------------------------------------------------
(* BatchNorm output, checked under SpecBNTrained.                           *)

\* every element of channel c of the buffer x is the same
FlatChannel(x, shape, c) ==
    \A i, j \in Positions(shape, c) : x[i + 1] = x[j + 1]

\* C11 as stated: a channel whose input elements are all equal yields output
\* 0 at every position of the channel, whatever gamma and beta are.
C11_FlatChannelGivesZero ==
    (bres.op = "forward" /\ bres.err = "none") =>
        \A c \in 0..(bn.num_features - 1) :
            FlatChannel(bres.input.data, bres.input.shape, c) =>
                \A j \in Positions(bres.input.shape, c) : bres.output.data[j + 1] = 0

\* C11: a channel whose input elements are all equal yields, at every
\* position of the channel, beta[c] when the layer is affine and 0 when it is
\* not (so 0 for an affine layer only while beta[c] is 0, as constructed).
C11_FlatChannelGivesBeta ==
    (bres.op = "forward" /\ bres.err = "none") =>
        \A c \in 0..(bn.num_features - 1) :
            FlatChannel(bres.input.data, bres.input.shape, c) =>
                \A j \in Positions(bres.input.shape, c) :
                    bres.output.data[j + 1] =
                        (IF bn.affine THEN bres.pre.beta.data[c + 1] ELSE 0)

\* an affine layer with a non-zero beta normalises a batch of two whose
\* channel 0 is flat and whose channel 1 is not
C11_Witness ==
    /\ bres.op = "forward"
    /\ bres.err = "none"
    /\ bn.affine
    /\ bn.beta.data[1] # 0
    /\ bres.input.shape[1] = 2
    /\ FlatChannel(bres.input.data, bres.input.shape, 0)
    /\ ~FlatChannel(bres.input.data, bres.input.shape, 1)
    /\ bres.input.data[1] # 0
    /\ bres.output.data[1] = bn.beta.data[1]

----------------------------------------------------------------------------
(* Linear and ReLU properties, checked under SpecLayer.                     *)

\* element [r, c] of a row-major buffer with the given number of columns
At(buf, cols, r, c) == buf[r * cols + c + 1]

\* bias[j] + sum over k of x[b, k] * weight[k, j]
LinearOut(L, x, b, j) ==
    LET K == 0..(L.weight.shape[1] - 1)
    IN  FAdd(L.bias.data[j + 1],
             SumOver(K, [k \in K |-> FMul(At(x, L.weight.shape[1], b, k),
                                          At(L.weight.data, L.weight.shape[2], k, j))]))

\* C12: Linear.forward on an input of shape [batch, in_features] sets the
\* output shape to [batch, out_features], writes
\* output[b, j] = bias[j] + sum over k of input[b, k] * weight[k, j], and
\* changes neither the input nor the weight nor the bias.
C12_LinearForward ==
    (lres.op = "forward" /\ lyr.kind = "Linear") =>
        LET batch == lx.shape[1]
            out == lyr.weight.shape[2]
        IN  /\ ly.shape = <<batch, out>>
            /\ Len(ly.data) = batch * out
            /\ \A b \in 0..(batch - 1), j \in 0..(out - 1) :
                   At(ly.data, out, b, j) = LinearOut(lyr, lx.data, b, j)
            /\ lx = lres.x0
            /\ lyr = lres.pre

\* a forward of a batch of two into an output tensor that had another shape,
\* giving rows and columns that differ
C12_Witness ==
    /\ lres.op = "forward"
    /\ lyr.kind = "Linear"
    /\ lx.shape[1] = 2
    /\ lres.y0 = StaleOutput
    /\ ly.data[1] # ly.data[2]
    /\ ly.data[1] # ly.data[3]
    /\ ly.data[1] # lyr.bias.data[1]

\* the three gradients of one Linear::backward call, for the input buffer x
\* and the output gradient og
InputGradOf(L, og, b, k) ==
    LET J == 0..(L.weight.shape[2] - 1)
    IN  SumOver(J, [j \in J |-> FMul(At(og, L.weight.shape[2], b, j),
                                     At(L.weight.data, L.weight.shape[2], k, j))])

WeightGradOf(L, x, og, batch, k, j) ==
    LET B == 0..(batch - 1)
    IN  SumOver(B, [b \in B |-> FMul(At(og, L.weight.shape[2], b, j),
                                     At(x, L.weight.shape[1], b, k))])

BiasGradOf(L, og, batch, j) ==
    LET B == 0..(batch - 1)
    IN  SumOver(B, [b \in B |-> At(og, L.weight.shape[2], b, j)])

\* C13: the first backward of a freshly constructed Linear leaves
\* input_grad[b, k] = sum over j of output_grad[b, j] * weight[k, j],
\* weight_grad[k, j] = sum over b of output_grad[b, j] * input[b, k] and
\* bias_grad[j] = sum over b of output_grad[b, j]: the parameter gradients
\* start from zero without the caller zeroing them.
C13_LinearFirstBackward ==
    (lres.op = "backward" /\ lyr.kind = "Linear" /\ lhist.nBackward = 1) =>
        LET batch == ly.shape[1]
            in == lyr.weight.shape[1]
            out == lyr.weight.shape[2]
        IN  /\ lres.pre.weight.grad = <<>> /\ lres.pre.bias.grad = <<>>
            /\ Len(lx.grad) = batch * in
            /\ Len(lyr.weight.grad) = in * out
            /\ Len(lyr.bias.grad) = out
            /\ \A b \in 0..(batch - 1), k \in 0..(in - 1) :
                   At(lx.grad, in, b, k) = InputGradOf(lyr, ly.grad, b, k)
            /\ \A k \in 0..(in - 1), j \in 0..(out - 1) :
                   At(lyr.weight.grad, out, k, j) =
                       WeightGradOf(lyr, lx.data, ly.grad, batch, k, j)
            /\ \A j \in 0..(out - 1) :
                   lyr.bias.grad[j + 1] = BiasGradOf(lyr, ly.grad, batch, j)

\* the first backward of a Linear on a batch of two, with gradients that are
\* not all zero
C13_Witness ==
    /\ lres.op = "backward"
    /\ lyr.kind = "Linear"
    /\ lhist.nBackward = 1
    /\ ly.shape[1] = 2
    /\ lres.pre.weight.grad = <<>>
    /\ \E i \in 1..Len(lyr.weight.grad) : lyr.weight.grad[i] # 0
    /\ \E i \in 1..Len(lyr.bias.grad) : lyr.bias.grad[i] # 0
    /\ \E i \in 1..Len(lx.grad) : lx.grad[i] # 0

\* C14: k backward calls with the same input and output gradient, nothing
\* zeroed in between, leave weight_grad and bias_grad at k times what one
\* call gives; input_grad after every call is what one call gives, whatever
\* it held before.
C14_LinearAccumulation ==
    (lres.op = "backward" /\ lyr.kind = "Linear") =>
        LET batch == ly.shape[1]
            in == lyr.weight.shape[1]
            out == lyr.weight.shape[2]
            n == lhist.nBackward
        IN  /\ \A b \in 0..(batch - 1), k \in 0..(in - 1) :
                   At(lx.grad, in, b, k) = InputGradOf(lyr, ly.grad, b, k)
            /\ ~lhist.mixed =>
                   /\ \A k \in 0..(in - 1), j \in 0..(out - 1) :
                          At(lyr.weight.grad, out, k, j) =
                              n * WeightGradOf(lyr, lx.data, ly.grad, batch, k, j)
                   /\ \A j \in 0..(out - 1) :
                          lyr.bias.grad[j + 1] = n * BiasGradOf(lyr, ly.grad, batch, j)

\* a second backward with the same arguments as the first, on an input
\* tensor that already held a gradient, doubling non-zero parameter gradients
C14_Witness ==
    /\ lres.op = "backward"
    /\ lyr.kind = "Linear"
    /\ lhist.nBackward = 2
    /\ ~lhist.mixed
    /\ \E i \in 1..Len(lres.x0.grad) : lres.x0.grad[i] # 0
    /\ lx.grad = lres.x0.grad
    /\ \E i \in 1..Len(lyr.weight.grad) :
           lres.pre.weight.grad[i] # 0 /\ lyr.weight.grad[i] = 2 * lres.pre.weight.grad[i]
    /\ \E i \in 1..Len(lyr.bias.grad) :
           lres.pre.bias.grad[i] # 0 /\ lyr.bias.grad[i] = 2 * lres.pre.bias.grad[i]

\* C15: ReLU.backward writes input_grad[i] = output_grad[i] where the forward
\* output is > 0 and 0 elsewhere, and for an output that ReLU.forward
\* produced this is output_grad[i] exactly where the forward input was > 0,
\* and 0 where it was <= 0.
C15_ReLUBackward ==
    (lres.op = "backward" /\ lyr.kind = "ReLU") =>
        /\ Len(lx.grad) = Len(ly.data)
        /\ Len(lhist.fwdInput) = Len(ly.data)
        /\ \A i \in 1..Len(ly.data) :
               /\ lx.grad[i] = (IF ly.data[i] > 0 THEN ly.grad[i] ELSE 0)
               /\ lx.grad[i] = (IF lhist.fwdInput[i] > 0 THEN ly.grad[i] ELSE 0)

\* a ReLU backward after a forward whose input held a zero, a negative and a
\* positive value, with a non-zero output gradient at the zero
C15_Witness ==
    /\ lres.op = "backward"
    /\ lyr.kind = "ReLU"
    /\ \E i, j, k \in 1..Len(ly.data) :
           /\ lhist.fwdInput[i] = 0 /\ ly.grad[i] # 0 /\ lx.grad[i] = 0
           /\ lhist.fwdInput[j] < 0 /\ ly.grad[j] # 0 /\ lx.grad[j] = 0
           /\ lhist.fwdInput[k] > 0 /\ ly.grad[k] # 0 /\ lx.grad[k] = ly.grad[k]

----------------------------------------------------------------------------
(* Tensor and mse_loss properties, checked under SpecTensor.                *)

\* C16: size(), resize() and resize_grad() fail with InvalidShape exactly
\* when the shape is empty or holds a 0, a failing call leaves data and grad
\* unchanged, and size() otherwise returns the product of the dimensions.
C16_SizeFailsOnInvalidShape ==
    tres.op \in {"size", "resize", "resize_grad"} =>
        /\ tres.err = "InvalidShape" <=>
               (tres.pre.shape = <<>> \/ \E i \in 1..Len(tres.pre.shape) : tres.pre.shape[i] = 0)
        /\ (tres.pre.shape = <<>> \/ \E i \in 1..Len(tres.pre.shape) : tres.pre.shape[i] = 0)
               <=> ~validate_shape(tres.pre)
        /\ tres.err # "none" => (tensor.data = tres.pre.data /\ tensor.grad = tres.pre.grad)
        /\ (tres.op = "size" /\ tres.err = "none") => tres.ret = Product(tres.pre.shape)

\* C17: for every valid shape, whatever the buffers held, resize() leaves
\* data with exactly product(shape) elements and resize_grad() leaves grad
\* with exactly product(shape) elements.
C17_ResizeGivesProduct ==
    /\ (tres.op = "resize" /\ validate_shape(tres.pre) /\ tres.err = "none") =>
           Len(tensor.data) = Product(tres.pre.shape)
    /\ (tres.op = "resize_grad" /\ validate_shape(tres.pre) /\ tres.err = "none") =>
           Len(tensor.grad) = Product(tres.pre.shape)

\* the values of old that new keeps: every index below both lengths
KeepsOverlap(old, new) ==
    \A i \in 1..Len(old) : i <= Len(new) => new[i] = old[i]

\* C18: resize() keeps the values of data at every index below
\* min(old length, new length) and changes neither grad nor shape;
\* resize_grad() does the same for grad and changes neither data nor shape.
C18_ResizeKeepsOverlap ==
    /\ tres.op = "resize" =>
           /\ KeepsOverlap(tres.pre.data, tensor.data)
           /\ tensor.grad = tres.pre.grad
           /\ tensor.shape = tres.pre.shape
    /\ tres.op = "resize_grad" =>
           /\ KeepsOverlap(tres.pre.grad, tensor.grad)
           /\ tensor.data = tres.pre.data
           /\ tensor.shape = tres.pre.shape

\* a resize() that grew a buffer holding assigned, non-zero values
C18_Witness ==
    /\ tres.op = "resize"
    /\ tres.err = "none"
    /\ tres.pre.data = Pattern(3, 0)
    /\ Len(tensor.data) > Len(tres.pre.data)
    /\ \E i \in 1..Len(tres.pre.data) : tensor.data[i] # 0
    /\ tensor.grad # <<>>

\* C19: zero_grad() sets every element of grad to 0, keeps the length of
\* grad, leaves shape and data unchanged, and on a tensor whose grad was never
\* sized does nothing and is no error.
C19_ZeroGrad ==
    tres.op = "zero_grad" =>
        /\ tres.err = "none"
        /\ Len(tensor.grad) = Len(tres.pre.grad)
        /\ \A i \in 1..Len(tensor.grad) : tensor.grad[i] = 0
        /\ tensor.shape = tres.pre.shape
        /\ tensor.data = tres.pre.data
        /\ tres.pre.grad = <<>> => tensor = tres.pre

\* a zero_grad() on a gradient that held non-zero values, next to data
C19_Witness ==
    /\ tres.op = "zero_grad"
    /\ \E i \in 1..Len(tres.pre.grad) : tres.pre.grad[i] # 0
    /\ tensor.data # <<>>
    /\ Len(tensor.grad) = 4

\* the mean of the squared element differences of two buffers of n > 0
\* elements
MeanSquaredDiff(p, q) ==
    LET I == 1..Len(p)
    IN  FDiv(SumOver(I, [i \in I |-> FMul(FSub(p[i], q[i]), FSub(p[i], q[i]))]),
             FromInt(Len(p)))

\* C20: mse_loss(pred, target) fails with SizeMismatch when the element
\* counts differ; otherwise it returns a tensor of shape [1] holding the mean
\* of the squared element differences, which is exactly 0 whenever pred and
\* target are identical; it modifies neither argument.
C20_MseLoss ==
    tres.op = "mse_loss" =>
        /\ tensor = tres.pre
        /\ IF Len(tres.pre.data) # Len(tres.arg.data)
           THEN tres.err = "SizeMismatch"
           ELSE /\ tres.err = "none"
                /\ tres.out.shape = <<1>>
                /\ Len(tres.out.data) = 1
                /\ Len(tres.pre.data) > 0 =>
                       (~tres.nan /\ tres.out.data[1] =
                                         MeanSquaredDiff(tres.pre.data, tres.arg.data))
                /\ tres.arg = tres.pre => (~tres.nan /\ tres.out.data[1] = 0)

----------------------------------------------------------------------------
(* Two BatchNorm layers compared, checked under SpecBNPair.                 *)

\* C27: the output of forward depends only on the input, eps and (if affine)
\* gamma and beta: two layers with equal eps, gamma and beta and different
\* call histories, running statistics, momentum or track_running_stats give
\* the same result on the same input, and forward changes neither gamma nor
\* beta nor their gradients.
C27_OutputIgnoresHistory ==
    /\ (bn.eps = twin.eps /\ bn.gamma.data = twin.gamma.data /\ bn.beta.data = twin.beta.data)
    /\ bres.op = "pair" =>
           /\ bres.err = bres.err2
           /\ bres.output = bres.output2
    /\ bres.op \in {"pair", "warm"} =>
           /\ bn.gamma = bres.pre.gamma /\ bn.beta = bres.pre.beta
           /\ twin.gamma = bres.pre2.gamma /\ twin.beta = bres.pre2.beta

\* one input passed to an affine layer that has normalised another batch
\* before and to a fresh one with another momentum that tracks no running
\* statistics, both holding the same written gamma and beta
C27_Witness ==
    /\ bres.op = "pair"
    /\ bres.err = "none"
    /\ bn.affine
    /\ bn.beta.data = TrainedBeta(bn.num_features)
    /\ bn.momentum # twin.momentum
    /\ bn.track_running_stats /\ ~twin.track_running_stats
    /\ ~bres.pre.first_update /\ bres.pre2.first_update
    /\ bres.pre.input_data # bres.input.data
    /\ bres.pre.running_mean.data # Zeros(bn.num_features)
    /\ bres.output = bres.output2
    /\ \E j \in 1..Len(bres.output.data) :
           bres.output.data[j] \notin {0, bn.beta.data[1], bn.beta.data[2]}

====
